---- MODULE Spec2Model ----
(***************************************************************************)
(* A model of the CHIP-8 interpreter of src/src/chip8/mod.rs and its       *)
(* decoder src/src/chip8/instructions.rs.                                  *)
(*                                                                         *)
(* The Chip8 struct is the state: one variable per field.  The code of     *)
(* the interpreter is a set of operators over a record holding these       *)
(* fields (ThisChip8 is the record of the current state); every action     *)
(* applies one of the program's entry points to it.  An operator that      *)
(* models code that can panic returns [vm, result]: the fields as they     *)
(* are when the call ends and "Ok", "Err" (an anyhow error returned to     *)
(* the caller) or "Panic" (the thread unwinds).                            *)
(*                                                                         *)
(* The two byte arrays, memory ([u8; 4096]) and vram ([u8; 2048]), are     *)
(* held as the function from the indices whose byte is not 0 to that byte: *)
(* At reads an index (0 where the function has none) and Put and PutSlice  *)
(* write, keeping that form, so two arrays are equal exactly when their    *)
(* functions are.  An index outside the array is never read or written:    *)
(* the code that indexes checks the bound first, as Rust does.             *)
(***************************************************************************)
EXTENDS Integers, Sequences, FiniteSets

VARIABLES
    memory,            \* Chip8::memory: [u8; 4096]
    registers,         \* Chip8::registers: [u8; 16]
    pc,                \* Chip8::pc: usize
    address_register,  \* Chip8::address_register: u16
    vram,              \* Chip8::vram: [u8; 64 * 32]
    stack,             \* Chip8::stack: Vec<usize>
    keyboard,          \* Chip8::keyboard: Keyboard(u16)
    delay_timer,       \* Chip8::delay_timer: u8
    redraw,            \* Chip8::redraw: bool
    mode,              \* Chip8::mode: Mode
    overflow_checks,   \* the build: TRUE when integer overflow panics (debug)
    rom_loaded,        \* whether load_rom has been called
    rom_file,          \* the bytes of the file load_rom was given
    step_log,          \* every step_cycle call so far: the word fetched, the
                       \* result, and registers, address_register, vram, pc
                       \* and stack as they were before the call
    before,            \* the Chip8 as it was before the last step_cycle call
    ticks,             \* timer ticks since the last step_cycle call
    key_events,        \* number of key events delivered so far
    keyboard_before,   \* the keyboard as it was before the last key event
    last_event,        \* the last thing the driver did
    chip8_mode,        \* DebugGui::chip8_mode: the mode the debug control shows
    set_mode,          \* DebugGui::set_mode: the mode requests sent and not
                       \* yet received (a channel)
    step_sender        \* DebugGui::step_sender: the number of step requests
                       \* sent and not yet received (a channel of ())

vars == <<memory, registers, pc, address_register, vram, stack, keyboard,
          delay_timer, redraw, mode, overflow_checks, rom_loaded, rom_file,
          step_log,
          before, ticks, key_events, keyboard_before, last_event, chip8_mode,
          set_mode, step_sender>>

\* The variables of the debug control
debug_vars == <<chip8_mode, set_mode, step_sender>>

(***************************************************************************)
(* Program constants.                                                      *)
(***************************************************************************)
DISPLAY_WIDTH == 64
DISPLAY_HEIGHT == 32
PC_INIT == 512
MEMORY_SIZE == 4096
NUM_REGISTERS == 16
FONT_START == 0
FONT_BYTES_PER_CHAR == 5
U8_MAX == 255
U16_MAX == 65535

FONT ==
    <<240, 144, 144, 144, 240,  32,  96,  32,  32, 112, 240,  16, 240, 128, 240, 240,
       16, 240,  16, 240, 144, 144, 240,  16,  16, 240, 128, 240,  16, 240, 240, 128,
      240, 144, 240, 240,  16,  32,  64,  64, 240, 144, 240, 144, 240, 240, 144, 240,
       16, 240, 240, 144, 240, 144, 144, 224, 144, 224, 144, 224, 240, 128, 128, 128,
      240, 224, 144, 144, 144, 224, 240, 128, 240, 128, 240, 240, 128, 240, 128, 128>>

(***************************************************************************)
(* Machine integers: u8 and u16 values are naturals below 2^8 and 2^16.    *)
(* The bitwise operators work bit by bit on the low `width` bits (at most  *)
(* 16): the result is the sum of 2^i over the bits i the operator sets.    *)
(***************************************************************************)
Pow2(n) == 2 ^ n

Bit(v, i) == (v \div Pow2(i)) % 2

\* The number whose bit i, for i < width, is set exactly when bit[i] holds
FromBits(bit, width) ==
    LET w(i) == IF i < width /\ bit[i] THEN Pow2(i) ELSE 0
    IN  (((w(0) + w(1)) + (w(2) + w(3))) + ((w(4) + w(5)) + (w(6) + w(7))))
        + (((w(8) + w(9)) + (w(10) + w(11))) + ((w(12) + w(13)) + (w(14) + w(15))))

BitAnd(a, b, width) ==
    FromBits([i \in 0..15 |-> Bit(a, i) = 1 /\ Bit(b, i) = 1], width)

BitOr(a, b, width) ==
    FromBits([i \in 0..15 |-> Bit(a, i) = 1 \/ Bit(b, i) = 1], width)

BitXor(a, b, width) ==
    FromBits([i \in 0..15 |-> Bit(a, i) # Bit(b, i)], width)

(***************************************************************************)
(* Byte arrays.                                                            *)
(***************************************************************************)
ZeroArray == [i \in {} |-> 0]

At(array, i) == IF i \in DOMAIN array THEN array[i] ELSE 0

Put(array, i, value) ==
    IF value = 0
    THEN [j \in DOMAIN array \ {i} |-> array[j]]
    ELSE [j \in DOMAIN array \cup {i} |-> IF j = i THEN value ELSE array[j]]

\* array[base..base + Len(values)] = values
PutSlice(array, base, values) ==
    LET span == base..(base + Len(values) - 1)
        set == {j \in span : values[j - base + 1] # 0}
    IN  [j \in (DOMAIN array \ span) \cup set |->
            IF j \in span THEN values[j - base + 1] ELSE array[j]]

\* `v as u8`: truncation to the low 8 bits
AsU8(v) == v % 256

\* u8::from(bool)
U8FromBool(b) == IF b THEN 1 ELSE 0

(***************************************************************************)
(* Results of code that can fail.                                          *)
(***************************************************************************)
Ok(c) == [vm |-> c, result |-> "Ok"]
Err(c) == [vm |-> c, result |-> "Err"]
Panic(c) == [vm |-> c, result |-> "Panic"]

(***************************************************************************)
(* The decoder: impl TryFrom<u16> for Instruction.  An instruction is a    *)
(* record: op names the variant, the other fields are its operands.  A     *)
(* word that matches no pattern gives [op |-> "Err", value |-> word],      *)
(* the anyhow error "unknown instruction 0x{value:X}".                     *)
(***************************************************************************)
read_address(instruction) == BitAnd(instruction, 4095, 16)

read_byte_operand(instruction) == AsU8(BitAnd(instruction, 255, 16))

RegOp(name, x, y) == [op |-> name, register_x |-> x, register_y |-> y]

try_from(value) ==
    LET a == BitAnd(value, 61440, 16) \div 4096
        b == BitAnd(value, 3840, 16) \div 256
        c == BitAnd(value, 240, 16) \div 16
        d == BitAnd(value, 15, 16)
        x == b
        y == c
    IN  CASE a = 0 /\ b = 0 /\ c = 14 /\ d = 0 -> [op |-> "Clear"]
          [] a = 0 /\ b = 0 /\ c = 14 /\ d = 14 -> [op |-> "Return"]
          [] a = 1 -> [op |-> "JumpToAddress", address |-> read_address(value)]
          [] a = 2 -> [op |-> "ExecuteSubroutine", address |-> read_address(value)]
          [] a = 3 -> [op |-> "SkipIfRegisterEqTo", register |-> b,
                       value |-> read_byte_operand(value)]
          [] a = 4 -> [op |-> "SkipIfRegisterNeqTo", register |-> b,
                       value |-> read_byte_operand(value)]
          [] a = 5 /\ d = 0 -> RegOp("SkipIfRegistersEq", x, y)
          [] a = 6 -> [op |-> "StoreNumberInRegister",
                       number |-> read_byte_operand(value), register |-> b]
          [] a = 7 -> [op |-> "AddToRegister", register |-> b,
                       value |-> read_byte_operand(value)]
          [] a = 8 /\ d = 0 -> RegOp("CopyRegister", x, y)
          [] a = 8 /\ d = 1 -> RegOp("OrRegisters", x, y)
          [] a = 8 /\ d = 2 -> RegOp("AndRegisters", x, y)
          [] a = 8 /\ d = 3 -> RegOp("XorRegisters", x, y)
          [] a = 8 /\ d = 4 -> RegOp("AddRegisters", x, y)
          [] a = 8 /\ d = 5 -> RegOp("SubRegisters", x, y)
          [] a = 8 /\ d = 6 -> RegOp("RightShiftRegister", x, y)
          [] a = 8 /\ d = 7 -> RegOp("SubRegistersOtherWayArround", x, y)
          [] a = 8 /\ d = 14 -> RegOp("LeftShiftRegister", x, y)
          [] a = 9 /\ d = 0 -> RegOp("SkipIfRegistersNeq", x, y)
          [] a = 10 -> [op |-> "SetAddressRegister", address |-> read_address(value)]
          [] a = 11 -> [op |-> "JumpOffsetV0", address |-> read_address(value)]
          [] a = 13 -> [op |-> "DrawSprite", register_x |-> x, register_y |-> y,
                        len |-> d]
          [] a = 14 /\ c = 9 /\ d = 14 -> [op |-> "SkipIfKey", register_x |-> x]
          [] a = 14 /\ c = 10 /\ d = 1 -> [op |-> "SkipIfNotKey", register_x |-> x]
          [] a = 15 /\ c = 0 /\ d = 7 -> [op |-> "ReadDelayTimer", register_x |-> x]
          [] a = 15 /\ c = 0 /\ d = 10 -> [op |-> "WaitForKey", register_x |-> x]
          [] a = 15 /\ c = 1 /\ d = 5 -> [op |-> "SetDelayTimer", register_x |-> x]
          [] a = 15 /\ c = 1 /\ d = 14 -> [op |-> "AddXtoI", register_x |-> x]
          [] a = 15 /\ c = 5 /\ d = 5 -> [op |-> "StoreRegisters", register_x |-> x]
          [] a = 15 /\ c = 6 /\ d = 5 -> [op |-> "LoadRegisters", register_x |-> x]
          [] a = 15 /\ c = 3 /\ d = 3 -> [op |-> "BinaryCodedDecimal", register_x |-> x]
          [] OTHER -> [op |-> "Err", value |-> value]

(***************************************************************************)
(* Keyboard(u16): one bit per key.  2_u16.pow(key) overflows for key >= 16:*)
(* a panic in a build with overflow checks, 0 in a build without (the      *)
(* product wraps).  The operators return [value, panic].                   *)
(***************************************************************************)
KeyMask(key, checks) ==
    IF key < 16 THEN [value |-> Pow2(key), panic |-> FALSE]
    ELSE [value |-> 0, panic |-> checks]

\* A variant of set_down that assigns the key's bit instead of or-ing it in
SetDownAssigning(kb, key, checks) ==
    LET m == KeyMask(key, checks)
    IN  [value |-> IF m.panic THEN kb ELSE m.value, panic |-> m.panic]

set_down(kb, key, checks) ==
    LET m == KeyMask(key, checks)
    IN  [value |-> IF m.panic THEN kb ELSE BitOr(kb, m.value, 16), panic |-> m.panic]

set_up(kb, key, checks) ==
    LET m == KeyMask(key, checks)
    IN  [value |-> IF m.panic THEN kb ELSE BitXor(kb, m.value, 16), panic |-> m.panic]

\* Keyboard::reset: no key is down
reset(kb) == 0

is_down(kb, key, checks) ==
    LET m == KeyMask(key, checks)
    IN  [value |-> ~m.panic /\ BitAnd(kb, m.value, 16) = m.value, panic |-> m.panic]

(***************************************************************************)
(* The display buffer.                                                     *)
(***************************************************************************)
None == -1

\* A variant of vram_index without the bounds test
VramIndexUnchecked(x, y) == DISPLAY_WIDTH * y + x

\* Some(index), or None when the coordinate is outside the screen
vram_index(x, y) ==
    IF x >= DISPLAY_WIDTH \/ y >= DISPLAY_HEIGHT
    THEN None
    ELSE DISPLAY_WIDTH * y + x

\* A variant of set_pixel that stores 0xFF for a lit pixel
SetPixelBright(v, x, y, pixel) ==
    LET index == vram_index(x, y)
    IN  IF index # None THEN Put(v, index, IF pixel THEN 255 ELSE 0) ELSE v

\* A variant of set_pixel that turns pixels on and never off
SetPixelOnly(v, x, y, pixel) ==
    LET index == vram_index(x, y)
    IN  IF index # None /\ pixel THEN Put(v, index, 1) ELSE v

set_pixel(v, x, y, pixel) ==
    LET index == vram_index(x, y)
    IN  IF index # None THEN Put(v, index, U8FromBool(pixel)) ELSE v

get_pixel(v, x, y) ==
    LET index == vram_index(x, y)
    IN  IF index # None THEN At(v, index) ELSE None


(***************************************************************************)
(* Mode and Chip8.                                                         *)
(***************************************************************************)
Running == [kind |-> "Running"]
WaitForKeyMode(register) == [kind |-> "WaitForKey", register |-> register]
Paused == [kind |-> "Paused"]

\* Chip8::new
\* A variant of new whose program counter starts at 0
NewAtZero ==
    [memory |-> PutSlice(ZeroArray, FONT_START, FONT),
     registers |-> [i \in 0..(NUM_REGISTERS - 1) |-> 0],
     pc |-> 0,
     address_register |-> 0,
     vram |-> ZeroArray,
     stack |-> <<>>,
     keyboard |-> 0,
     delay_timer |-> 0,
     redraw |-> FALSE,
     mode |-> Running]

new ==
    [memory |-> PutSlice(ZeroArray, FONT_START, FONT),
     registers |-> [i \in 0..(NUM_REGISTERS - 1) |-> 0],
     pc |-> PC_INIT,
     address_register |-> 0,
     vram |-> ZeroArray,
     stack |-> <<>>,
     keyboard |-> 0,
     delay_timer |-> 0,
     redraw |-> FALSE,
     mode |-> Running]

\* A variant of load_rom that copies only as much of the file as fits
LoadRomTruncating(c, rom) ==
    LET offset == PC_INIT
        fits == IF Len(rom) + offset > MEMORY_SIZE THEN MEMORY_SIZE - offset ELSE Len(rom)
    IN  Ok([c EXCEPT !.memory = PutSlice(c.memory, offset, SubSeq(rom, 1, fits))])

\* Chip8::load_rom, given the bytes of the file.  The slice
\* memory[offset..rom.len() + offset] panics when it ends past the memory.
load_rom(c, rom) ==
    LET offset == PC_INIT
    IN  IF Len(rom) + offset > MEMORY_SIZE
        THEN Panic(c)
        ELSE Ok([c EXCEPT !.memory = PutSlice(c.memory, offset, rom)])

\* A variant of fetch_and_decode_instruction that leaves pc where it is
FetchWithoutAdvance(c) ==
    IF c.pc + 1 >= MEMORY_SIZE
    THEN [vm |-> c, result |-> "Panic", word |-> None, instr |-> [op |-> "Err", value |-> None]]
    ELSE LET instruction == BitOr((At(c.memory, c.pc) * 256) % 65536,
                                  At(c.memory, c.pc + 1), 16)
             instr == try_from(instruction)
         IN  [vm |-> c,
              result |-> IF instr.op = "Err" THEN "Err" ELSE "Ok",
              word |-> instruction,
              instr |-> instr]

\* Chip8::fetch_and_decode_instruction: [vm, result, word, instr].  Indexing
\* memory at pc or pc + 1 panics outside the array, before pc is advanced.
fetch_and_decode_instruction(c) ==
    IF c.pc + 1 >= MEMORY_SIZE
    THEN [vm |-> c, result |-> "Panic", word |-> None, instr |-> [op |-> "Err", value |-> None]]
    ELSE LET instruction == BitOr((At(c.memory, c.pc) * 256) % 65536,
                                  At(c.memory, c.pc + 1), 16)
             instr == try_from(instruction)
         IN  [vm |-> [c EXCEPT !.pc = c.pc + 2],
              result |-> IF instr.op = "Err" THEN "Err" ELSE "Ok",
              word |-> instruction,
              instr |-> instr]


(***************************************************************************)
(* Chip8::execute_instruction, one operator per match arm.  `c` is the     *)
(* Chip8 after the fetch (pc already advanced), `checks` the build's       *)
(* overflow checks.                                                        *)
(***************************************************************************)
\* A variant of Clear that leaves the redraw flag as it was
ClearKeepingRedraw(c) == Ok([c EXCEPT !.vram = ZeroArray])

Clear(c) ==
    Ok([c EXCEPT !.vram = ZeroArray, !.redraw = TRUE])

\* Variant of JumpToAddress: pc is set to the byte after the address.
JumpToAddressNext(c, address) == Ok([c EXCEPT !.pc = address + 1])

JumpToAddress(c, address) == Ok([c EXCEPT !.pc = address])

\* Variant of StoreNumberInRegister: the machine is set running again.
StoreNumberInRegisterResuming(c, number, register) ==
    Ok([c EXCEPT !.registers[register] = number, !.mode = Running])

StoreNumberInRegister(c, number, register) ==
    Ok([c EXCEPT !.registers[register] = number])

\* Variant of SetAddressRegister: the byte at the address is written too.
SetAddressRegisterStoring(c, address) ==
    Ok([c EXCEPT !.address_register = address, !.memory = Put(c.memory, address, 1)])

SetAddressRegister(c, address) == Ok([c EXCEPT !.address_register = address])

\* A variant of StartCoordinate that leaves the register's value as it is
StartCoordinateUnreduced(value, last, dimension) == value

\* The start position of a sprite: the register's value, reduced modulo the
\* dimension when it lies outside the screen.
StartCoordinate(value, last, dimension) ==
    IF value > last THEN value % dimension ELSE value

\* The inner loop of DrawSprite, `for i in (0..8).rev()`, from bit i of the
\* row down to bit 0, the pixel of bit i at (start_x + 7 - i, y).  d is
\* [vram, vf]: the buffer and register 0xF so far.
RECURSIVE DrawRow(_, _, _, _, _)
DrawRow(d, row, start_x, y, i) ==
    IF i < 0 THEN d
    ELSE LET x == start_x + (7 - i)
             sprite_pixel == U8FromBool(BitAnd(row, Pow2(i), 8) = Pow2(i))
             old_pixel == get_pixel(d.vram, x, y)
             new_pixel == BitXor(old_pixel, sprite_pixel, 8)
         IN  IF old_pixel # None
             THEN DrawRow([vram |-> set_pixel(d.vram, x, y, new_pixel = 1),
                           vf |-> IF old_pixel = 1 /\ new_pixel = 0 THEN 1 ELSE d.vf],
                          row, start_x, y, i - 1)
             ELSE DrawRow(d, row, start_x, y, i - 1)

\* The outer loop, `for row in sprite`, from row r of the sprite on, row r
\* at y = start_y + r - 1.  `after` is d after row r; it is drawn from a
\* one-element set so that TLC computes a row before it goes on to the next.
RECURSIVE DrawRows(_, _, _, _, _)
DrawRows(d, sprite, start_x, start_y, r) ==
    IF r > Len(sprite) THEN d
    ELSE CHOOSE result \in
             { DrawRows(after, sprite, start_x, start_y, r + 1) :
                   after \in {DrawRow(d, sprite[r], start_x, start_y + r - 1, 7)} } : TRUE

\* A variant of DrawSprite that never reports a collision
DrawSpriteNoCollision(c, register_x, register_y, len) ==
    LET start_x == StartCoordinate(c.registers[register_x], 63, DISPLAY_WIDTH)
        start_y == StartCoordinate(c.registers[register_y], 31, DISPLAY_HEIGHT)
        lo == c.address_register
        hi == lo + len
    IN  IF hi > MEMORY_SIZE
        THEN Panic(c)
        ELSE LET sprite == [r \in 1..len |-> At(c.memory, lo + r - 1)]
                 d == DrawRows([vram |-> c.vram, vf |-> 0], sprite, start_x, start_y, 1)
             IN  Ok([c EXCEPT !.registers[15] = 0, !.vram = d.vram, !.redraw = TRUE])

\* A variant of DrawSprite that does not clear register 0xF before drawing
DrawSpriteKeepingFlag(c, register_x, register_y, len) ==
    LET start_x == StartCoordinate(c.registers[register_x], 63, DISPLAY_WIDTH)
        start_y == StartCoordinate(c.registers[register_y], 31, DISPLAY_HEIGHT)
        lo == c.address_register
        hi == lo + len
    IN  IF hi > MEMORY_SIZE
        THEN Panic(c)
        ELSE LET sprite == [r \in 1..len |-> At(c.memory, lo + r - 1)]
                 d == DrawRows([vram |-> c.vram, vf |-> c.registers[15]],
                               sprite, start_x, start_y, 1)
             IN  Ok([c EXCEPT !.registers[15] = d.vf, !.vram = d.vram, !.redraw = TRUE])

DrawSprite(c, register_x, register_y, len) ==
    LET start_x == StartCoordinate(c.registers[register_x], 63, DISPLAY_WIDTH)
        start_y == StartCoordinate(c.registers[register_y], 31, DISPLAY_HEIGHT)
        lo == c.address_register
        hi == lo + len
    IN  IF hi > MEMORY_SIZE
        THEN Panic(c)
        ELSE LET sprite == [r \in 1..len |-> At(c.memory, lo + r - 1)]
                 d == DrawRows([vram |-> c.vram, vf |-> 0], sprite, start_x, start_y, 1)
             IN  Ok([c EXCEPT !.registers[15] = d.vf, !.vram = d.vram, !.redraw = TRUE])

SkipIfRegisterEqTo(c, register, value) ==
    Ok(IF c.registers[register] = value THEN [c EXCEPT !.pc = c.pc + 2] ELSE c)

SkipIfRegisterNeqTo(c, register, value) ==
    Ok(IF c.registers[register] # value THEN [c EXCEPT !.pc = c.pc + 2] ELSE c)

SkipIfRegistersEq(c, register_x, register_y) ==
    Ok(IF c.registers[register_x] = c.registers[register_y]
       THEN [c EXCEPT !.pc = c.pc + 2] ELSE c)

AddToRegister(c, register, value) ==
    Ok([c EXCEPT !.registers[register] = (c.registers[register] + value) % 256])

\* Variant of SkipIfRegistersNeq: Vx is compared with the number y.
SkipIfRegistersNeqNumber(c, register_x, register_y) ==
    Ok(IF c.registers[register_x] # register_y
       THEN [c EXCEPT !.pc = c.pc + 2] ELSE c)

SkipIfRegistersNeq(c, register_x, register_y) ==
    Ok(IF c.registers[register_x] # c.registers[register_y]
       THEN [c EXCEPT !.pc = c.pc + 2] ELSE c)

ExecuteSubroutine(c, address) ==
    Ok([c EXCEPT !.stack = Append(c.stack, c.pc), !.pc = address])

\* stack.pop().expect(..) panics on an empty stack
\* Variant of Return: the oldest entry of the stack is taken.
ReturnToOldest(c) ==
    IF Len(c.stack) = 0 THEN Panic(c)
    ELSE Ok([c EXCEPT !.pc = c.stack[1],
                      !.stack = SubSeq(c.stack, 2, Len(c.stack))])

Return(c) ==
    IF Len(c.stack) = 0
    THEN Panic(c)
    ELSE Ok([c EXCEPT !.pc = c.stack[Len(c.stack)],
                      !.stack = SubSeq(c.stack, 1, Len(c.stack) - 1)])

CopyRegister(c, register_x, register_y) ==
    Ok([c EXCEPT !.registers[register_x] = c.registers[register_y]])

\* registers[x] is written first and registers[0xF] after it
WriteThenFlag(c, register_x, value, flag) ==
    [c EXCEPT !.registers = [[c.registers EXCEPT ![register_x] = value] EXCEPT ![15] = flag]]

\* A variant of OrRegisters without the write of registers[0xF]
OrRegistersKeepingFlag(c, register_x, register_y) ==
    Ok([c EXCEPT !.registers[register_x] =
            BitOr(c.registers[register_x], c.registers[register_y], 8)])

OrRegisters(c, register_x, register_y) ==
    Ok(WriteThenFlag(c, register_x,
                     BitOr(c.registers[register_x], c.registers[register_y], 8), 0))

AndRegisters(c, register_x, register_y) ==
    Ok(WriteThenFlag(c, register_x,
                     BitAnd(c.registers[register_x], c.registers[register_y], 8), 0))

XorRegisters(c, register_x, register_y) ==
    Ok(WriteThenFlag(c, register_x,
                     BitXor(c.registers[register_x], c.registers[register_y], 8), 0))

\* A variant of AddRegisters that writes registers[0xF] first and
\* registers[x] after it
AddRegistersFlagFirst(c, register_x, register_y) ==
    LET result == c.registers[register_x] + c.registers[register_y]
        carry == result > U8_MAX
    IN  Ok([c EXCEPT !.registers =
               [[c.registers EXCEPT ![15] = U8FromBool(carry)]
                   EXCEPT ![register_x] = AsU8(result)]])

AddRegisters(c, register_x, register_y) ==
    LET result == c.registers[register_x] + c.registers[register_y]
        carry == result > U8_MAX
    IN  Ok(WriteThenFlag(c, register_x, AsU8(result), U8FromBool(carry)))

\* `x - y` on u8: below zero it panics in a build with overflow checks and
\* wraps modulo 256 in a build without
SubRegisters(c, register_x, register_y, checks) ==
    LET x == c.registers[register_x]
        y == c.registers[register_y]
        borrow == y > x
    IN  IF x - y < 0 /\ checks
        THEN Panic(c)
        ELSE Ok(WriteThenFlag(c, register_x, (x - y) % 256, U8FromBool(~borrow)))

SubRegistersOtherWayArround(c, register_x, register_y, checks) ==
    LET x == c.registers[register_x]
        y == c.registers[register_y]
        borrow == x > y
    IN  IF y - x < 0 /\ checks
        THEN Panic(c)
        ELSE Ok(WriteThenFlag(c, register_x, (y - x) % 256, U8FromBool(~borrow)))

LeftShiftRegister(c, register_x, register_y) ==
    LET value == c.registers[register_y]
        vf_temp == BitAnd(value, 128, 8)
    IN  Ok(WriteThenFlag(c, register_x, (value * 2) % 256, U8FromBool(vf_temp = 128)))

\* A variant of RightShiftRegister that shifts register x in place
RightShiftRegisterInPlace(c, register_x, register_y) ==
    LET value == c.registers[register_x]
        vf_temp == BitAnd(value, 1, 8)
    IN  Ok(WriteThenFlag(c, register_x, value \div 2, U8FromBool(vf_temp = 1)))

RightShiftRegister(c, register_x, register_y) ==
    LET value == c.registers[register_y]
        vf_temp == BitAnd(value, 1, 8)
    IN  Ok(WriteThenFlag(c, register_x, value \div 2, U8FromBool(vf_temp = 1)))


\* How many of the indexings memory[address_register + i], i = 0, 1, ...,
\* count - 1, are inside the array: the next one panics.
InBounds(address, count) ==
    IF address >= MEMORY_SIZE THEN 0
    ELSE IF address + count > MEMORY_SIZE THEN MEMORY_SIZE - address
    ELSE count

\* A variant of StoreRegisters whose addresses wrap around at the end of
\* the memory
StoreRegistersWrapping(c, register_x) ==
    LET base == c.address_register
        wrapped == [i \in 0..register_x |-> (base + i) % MEMORY_SIZE]
    IN  Ok([c EXCEPT !.memory =
                   [j \in { a \in DOMAIN c.memory \cup {wrapped[i] : i \in 0..register_x} :
                               IF \E i \in 0..register_x : wrapped[i] = a
                               THEN c.registers[CHOOSE i \in 0..register_x : wrapped[i] = a] # 0
                               ELSE TRUE } |->
                        IF \E i \in 0..register_x : wrapped[i] = j
                        THEN c.registers[CHOOSE i \in 0..register_x : wrapped[i] = j]
                        ELSE c.memory[j]],
                   !.address_register = (base + register_x + 1) % (U16_MAX + 1)])

\* A variant of StoreRegisters that leaves the address register as it was
StoreRegistersKeepingI(c, register_x) ==
    LET base == c.address_register
        done == InBounds(base, register_x + 1)
        written == [c EXCEPT !.memory =
                       PutSlice(c.memory, base, [i \in 1..done |-> c.registers[i - 1]])]
    IN  IF done < register_x + 1 THEN Panic(written) ELSE Ok(written)

StoreRegisters(c, register_x) ==
    LET base == c.address_register
        done == InBounds(base, register_x + 1)
        written == [c EXCEPT !.memory =
                       PutSlice(c.memory, base, [i \in 1..done |-> c.registers[i - 1]])]
    IN  IF done < register_x + 1
        THEN Panic(written)
        ELSE Ok([written EXCEPT !.address_register = base + register_x + 1])

\* A variant of LoadRegisters that loads registers 0..x - 1 only
LoadRegistersExclusive(c, register_x) ==
    LET base == c.address_register
        done == InBounds(base, register_x + 1)
        loaded == [c EXCEPT !.registers =
                      [i \in DOMAIN c.registers |->
                          IF i < done /\ i < register_x
                          THEN At(c.memory, base + i) ELSE c.registers[i]]]
    IN  IF done < register_x + 1
        THEN Panic(loaded)
        ELSE Ok([loaded EXCEPT !.address_register = base + register_x + 1])

LoadRegisters(c, register_x) ==
    LET base == c.address_register
        done == InBounds(base, register_x + 1)
        loaded == [c EXCEPT !.registers =
                      [i \in DOMAIN c.registers |->
                          IF i < done THEN At(c.memory, base + i) ELSE c.registers[i]]]
    IN  IF done < register_x + 1
        THEN Panic(loaded)
        ELSE Ok([loaded EXCEPT !.address_register = base + register_x + 1])

\* A variant of BinaryCodedDecimal whose tens digit is value / 10
BinaryCodedDecimalTens(c, register_x) ==
    LET value == c.registers[register_x]
        digits == <<value \div 100, value \div 10, value % 10>>
        base == c.address_register
        done == InBounds(base, 3)
        written == [c EXCEPT !.memory = PutSlice(c.memory, base, SubSeq(digits, 1, done))]
    IN  IF done < 3 THEN Panic(written) ELSE Ok(written)

BinaryCodedDecimal(c, register_x) ==
    LET value == c.registers[register_x]
        hundred == value \div 100
        ten == (value % 100) \div 10
        one == value % 10
        digits == <<hundred, ten, one>>
        base == c.address_register
        done == InBounds(base, 3)
        written == [c EXCEPT !.memory = PutSlice(c.memory, base, SubSeq(digits, 1, done))]
    IN  IF done < 3 THEN Panic(written) ELSE Ok(written)

\* `address_register += ..` on u16: past 65535 it panics in a build with
\* overflow checks and wraps in a build without
AddXtoI(c, register_x, checks) ==
    LET sum == c.address_register + c.registers[register_x]
    IN  IF sum > U16_MAX /\ checks
        THEN Panic(c)
        ELSE Ok([c EXCEPT !.address_register = sum % (U16_MAX + 1)])

\* A variant of SetDelayTimer that always reads registers[0]
SetDelayTimerFromV0(c, register_x) ==
    Ok([c EXCEPT !.delay_timer = c.registers[0]])

SetDelayTimer(c, register_x) ==
    Ok([c EXCEPT !.delay_timer = c.registers[register_x]])

\* A variant of ReadDelayTimer that writes register 0
ReadDelayTimerIntoV0(c, register_x) ==
    Ok([c EXCEPT !.registers[0] = c.delay_timer])

ReadDelayTimer(c, register_x) ==
    Ok([c EXCEPT !.registers[register_x] = c.delay_timer])

SkipIfKey(c, register_x, checks) ==
    LET key == c.registers[register_x]
        down == is_down(c.keyboard, key, checks)
    IN  IF down.panic THEN Panic(c)
        ELSE Ok(IF down.value THEN [c EXCEPT !.pc = c.pc + 2] ELSE c)

\* A variant of SkipIfNotKey that reads the key whose number is x itself
SkipIfNotKeyX(c, register_x, checks) ==
    LET down == is_down(c.keyboard, register_x, checks)
    IN  IF down.panic THEN Panic(c)
        ELSE Ok(IF ~down.value THEN [c EXCEPT !.pc = c.pc + 2] ELSE c)

SkipIfNotKey(c, register_x, checks) ==
    LET key == c.registers[register_x]
        down == is_down(c.keyboard, key, checks)
    IN  IF down.panic THEN Panic(c)
        ELSE Ok(IF ~down.value THEN [c EXCEPT !.pc = c.pc + 2] ELSE c)

\* A variant of WaitForKey that writes the register at once and keeps running
WaitForKeyImmediate(c, register_x) ==
    Ok([c EXCEPT !.registers[register_x] = 0])

\* A variant of WaitForKey that pauses the machine
WaitForKeyPausing(c, register_x) == Ok([c EXCEPT !.mode = Paused])

WaitForKey(c, register_x) == Ok([c EXCEPT !.mode = WaitForKeyMode(register_x)])

\* A variant of JumpOffsetV0 that adds the register of the second nibble
JumpOffsetVX(c, address) ==
    Ok([c EXCEPT !.pc = address + c.registers[address \div 256]])

JumpOffsetV0(c, address) == Ok([c EXCEPT !.pc = address + c.registers[0]])

LoadFontCharacter(c, register_x) ==
    Ok([c EXCEPT !.address_register =
            FONT_START + FONT_BYTES_PER_CHAR * c.registers[register_x]])

\* Instruction::RandomNumber: Vx = r & mask, where `random` is the byte that
\* rand::random::<u8>() returned
RandomNumber(c, register_x, mask, random) ==
    Ok([c EXCEPT !.registers[register_x] = BitAnd(random, mask, 8)])

\* `random` is the byte rand::random::<u8>() returns if the arm calls it
execute_instruction(c, instruction, checks, random) ==
    LET i == instruction
    IN  CASE i.op = "Clear" -> Clear(c)
          [] i.op = "JumpToAddress" -> JumpToAddress(c, i.address)
          [] i.op = "StoreNumberInRegister" -> StoreNumberInRegister(c, i.number, i.register)
          [] i.op = "SetAddressRegister" -> SetAddressRegister(c, i.address)
          [] i.op = "DrawSprite" -> DrawSprite(c, i.register_x, i.register_y, i.len)
          [] i.op = "SkipIfRegisterEqTo" -> SkipIfRegisterEqTo(c, i.register, i.value)
          [] i.op = "SkipIfRegisterNeqTo" -> SkipIfRegisterNeqTo(c, i.register, i.value)
          [] i.op = "SkipIfRegistersEq" -> SkipIfRegistersEq(c, i.register_x, i.register_y)
          [] i.op = "AddToRegister" -> AddToRegister(c, i.register, i.value)
          [] i.op = "SkipIfRegistersNeq" -> SkipIfRegistersNeq(c, i.register_x, i.register_y)
          [] i.op = "ExecuteSubroutine" -> ExecuteSubroutine(c, i.address)
          [] i.op = "Return" -> Return(c)
          [] i.op = "CopyRegister" -> CopyRegister(c, i.register_x, i.register_y)
          [] i.op = "OrRegisters" -> OrRegisters(c, i.register_x, i.register_y)
          [] i.op = "AndRegisters" -> AndRegisters(c, i.register_x, i.register_y)
          [] i.op = "XorRegisters" -> XorRegisters(c, i.register_x, i.register_y)
          [] i.op = "AddRegisters" -> AddRegisters(c, i.register_x, i.register_y)
          [] i.op = "SubRegisters" -> SubRegisters(c, i.register_x, i.register_y, checks)
          [] i.op = "SubRegistersOtherWayArround" ->
                 SubRegistersOtherWayArround(c, i.register_x, i.register_y, checks)
          [] i.op = "LeftShiftRegister" -> LeftShiftRegister(c, i.register_x, i.register_y)
          [] i.op = "RightShiftRegister" -> RightShiftRegister(c, i.register_x, i.register_y)
          [] i.op = "StoreRegisters" -> StoreRegisters(c, i.register_x)
          [] i.op = "LoadRegisters" -> LoadRegisters(c, i.register_x)
          [] i.op = "BinaryCodedDecimal" -> BinaryCodedDecimal(c, i.register_x)
          [] i.op = "AddXtoI" -> AddXtoI(c, i.register_x, checks)
          [] i.op = "SetDelayTimer" -> SetDelayTimer(c, i.register_x)
          [] i.op = "ReadDelayTimer" -> ReadDelayTimer(c, i.register_x)
          [] i.op = "SkipIfKey" -> SkipIfKey(c, i.register_x, checks)
          [] i.op = "SkipIfNotKey" -> SkipIfNotKey(c, i.register_x, checks)
          [] i.op = "WaitForKey" -> WaitForKey(c, i.register_x)
          [] i.op = "JumpOffsetV0" -> JumpOffsetV0(c, i.address)
          [] i.op = "LoadFontCharacter" -> LoadFontCharacter(c, i.register_x)
          [] i.op = "RandomNumber" -> RandomNumber(c, i.register_x, i.mask, random)

\* A variant of step_cycle that drops the decoder's error and returns Ok
StepCycleDroppingError(c, checks, random) ==
    LET fetched == fetch_and_decode_instruction(c)
    IN  IF fetched.result = "Panic"
        THEN [vm |-> fetched.vm, result |-> "Panic", word |-> fetched.word]
        ELSE IF fetched.result = "Err"
        THEN [vm |-> fetched.vm, result |-> "Ok", word |-> fetched.word]
        ELSE LET executed == execute_instruction(fetched.vm, fetched.instr, checks, random)
             IN  [vm |-> executed.vm, result |-> executed.result, word |-> fetched.word]

\* Chip8::step_cycle: [vm, result, word].  `?` returns the decoder's error
\* to the caller with pc already advanced and nothing executed.
step_cycle(c, checks, random) ==
    LET fetched == fetch_and_decode_instruction(c)
    IN  IF fetched.result # "Ok"
        THEN [vm |-> fetched.vm, result |-> fetched.result, word |-> fetched.word]
        ELSE LET executed == execute_instruction(fetched.vm, fetched.instr, checks, random)
             IN  [vm |-> executed.vm, result |-> executed.result, word |-> fetched.word]


(***************************************************************************)
(* The driver around the Chip8: it loads one ROM, calls step_cycle while   *)
(* the mode is Running, ticks the delay timer and feeds key events.        *)
(***************************************************************************)
timer_tick(c) ==
    IF c.delay_timer > 0 THEN [c EXCEPT !.delay_timer = c.delay_timer - 1] ELSE c

key_pressed(c, key, checks) ==
    LET kb == set_down(c.keyboard, key, checks)
    IN  IF kb.panic THEN Panic(c) ELSE Ok([c EXCEPT !.keyboard = kb.value])

key_released(c, key, checks) ==
    LET kb == set_up(c.keyboard, key, checks)
    IN  IF kb.panic THEN Panic(c)
        ELSE Ok(IF c.mode.kind = "WaitForKey"
                THEN [c EXCEPT !.keyboard = kb.value,
                               !.registers[c.mode.register] = key,
                               !.mode = Running]
                ELSE [c EXCEPT !.keyboard = kb.value])

DriverMayStep(c) == c.mode = Running

\* The bytes rand::random::<u8>() may return during a step_cycle call on c:
\* any byte when the call executes RandomNumber, which alone draws one
RandomBytes(c) ==
    IF fetch_and_decode_instruction(c).instr.op = "RandomNumber"
    THEN 0..U8_MAX
    ELSE {0}

\* A mode request received from the debug control
mode_requested(c, requested) == [c EXCEPT !.mode = requested]

\* A step request received while Paused: one step_cycle call, after which
\* the mode is Paused again
step_requested(c, checks, random) ==
    LET stepped == step_cycle(c, checks, random)
    IN  [stepped EXCEPT !.vm.mode = Paused]

(***************************************************************************)
(* The debug control: DebugGui::play_pause_step.  The first button sends   *)
(* new_mode, which depends on the mode the control shows; the Step button  *)
(* is there only while the control shows Paused.                           *)
(***************************************************************************)
\* A variant of new_mode that asks for Paused whatever the control shows
NewModeAlwaysPaused(shown) == Paused

new_mode(shown) ==
    CASE shown = Running -> Paused
      [] shown = Paused -> Running
      [] OTHER -> WaitForKeyMode(shown.register)

step_button(shown) == shown = Paused

(***************************************************************************)
(* Bounds of the model.                                                    *)
(***************************************************************************)
MaxCycles == 8
MaxTicks == 11
MaxKeyEvents == 2
MaxPending == 2

(***************************************************************************)
(* ROM images.  A ROM is the sequence of the bytes of its file; Rom gives  *)
(* the bytes of a sequence of 16-bit words, high byte first.               *)
(***************************************************************************)
Word(a, b, c, d) == 4096 * a + 256 * b + 16 * c + d

WordXKK(a, x, kk) == 4096 * a + 256 * x + kk

Rom(words) ==
    [i \in 1..(2 * Len(words)) |->
        IF i % 2 = 1 THEN words[(i + 1) \div 2] \div 256 ELSE words[i \div 2] % 256]

(***************************************************************************)
(* The state as a Chip8 record, and the actions.                           *)
(***************************************************************************)
ThisChip8 ==
    [memory |-> memory, registers |-> registers, pc |-> pc,
     address_register |-> address_register, vram |-> vram, stack |-> stack,
     keyboard |-> keyboard, delay_timer |-> delay_timer, redraw |-> redraw,
     mode |-> mode]

Becomes(c) ==
    /\ memory' = c.memory
    /\ registers' = c.registers
    /\ pc' = c.pc
    /\ address_register' = c.address_register
    /\ vram' = c.vram
    /\ stack' = c.stack
    /\ keyboard' = c.keyboard
    /\ delay_timer' = c.delay_timer
    /\ redraw' = c.redraw
    /\ mode' = c.mode

Is(c) ==
    /\ memory = c.memory
    /\ registers = c.registers
    /\ pc = c.pc
    /\ address_register = c.address_register
    /\ vram = c.vram
    /\ stack = c.stack
    /\ keyboard = c.keyboard
    /\ delay_timer = c.delay_timer
    /\ redraw = c.redraw
    /\ mode = c.mode

Event(op, result, word, key) == [op |-> op, result |-> result, word |-> word, key |-> key]

\* No thread has panicked
Alive == last_event.result # "Panic"

Init ==
    /\ Is(new)
    /\ overflow_checks \in BOOLEAN
    /\ rom_loaded = FALSE
    /\ rom_file = <<>>
    /\ step_log = <<>>
    /\ before = new
    /\ ticks = 0
    /\ key_events = 0
    /\ keyboard_before = new.keyboard
    /\ last_event = Event("new", "Ok", None, None)
    /\ chip8_mode = new.mode
    /\ set_mode = <<>>
    /\ step_sender = 0

LoadRom(rom) ==
    /\ Alive
    /\ ~rom_loaded
    /\ \E r \in {load_rom(ThisChip8, rom)} :
           /\ Becomes(r.vm)
           /\ last_event' = Event("load_rom", r.result, None, None)
    /\ rom_loaded' = TRUE
    /\ rom_file' = rom
    /\ UNCHANGED <<overflow_checks, step_log, before, ticks, key_events,
                   keyboard_before>>
    /\ UNCHANGED debug_vars

StepCycle ==
    /\ Alive
    /\ rom_loaded
    /\ DriverMayStep(ThisChip8)
    /\ Len(step_log) < MaxCycles
    /\ \E random \in RandomBytes(ThisChip8) :
       \E r \in {step_cycle(ThisChip8, overflow_checks, random)} :
           /\ Becomes(r.vm)
           /\ step_log' = Append(step_log,
                                 [word |-> r.word, result |-> r.result,
                                  registers |-> registers,
                                  address_register |-> address_register,
                                  vram |-> vram, pc |-> pc, stack |-> stack])
           /\ last_event' = Event("step_cycle", r.result, r.word, None)
    /\ before' = ThisChip8
    /\ ticks' = 0
    /\ UNCHANGED <<overflow_checks, rom_loaded, rom_file, key_events,
                   keyboard_before>>
    /\ UNCHANGED debug_vars

\* Chip8::step_cycle called by a caller that does not look at the mode: the
\* method is public and has no test of self.mode
StepCycleCall ==
    /\ Alive
    /\ rom_loaded
    /\ Len(step_log) < MaxCycles
    /\ \E random \in RandomBytes(ThisChip8) :
       \E r \in {step_cycle(ThisChip8, overflow_checks, random)} :
           /\ Becomes(r.vm)
           /\ step_log' = Append(step_log,
                                 [word |-> r.word, result |-> r.result,
                                  registers |-> registers,
                                  address_register |-> address_register,
                                  vram |-> vram, pc |-> pc, stack |-> stack])
           /\ last_event' = Event("step_cycle", r.result, r.word, None)
    /\ before' = ThisChip8
    /\ ticks' = 0
    /\ UNCHANGED <<overflow_checks, rom_loaded, rom_file, key_events,
                   keyboard_before>>
    /\ UNCHANGED debug_vars

TimerTick ==
    /\ Alive
    /\ ticks < MaxTicks
    /\ Becomes(timer_tick(ThisChip8))
    /\ ticks' = ticks + 1
    /\ last_event' = Event("timer_tick", "Ok", None, None)
    /\ UNCHANGED <<overflow_checks, rom_loaded, rom_file, step_log, before, key_events,
                   keyboard_before>>
    /\ UNCHANGED debug_vars

KeyPressed(key) ==
    /\ Alive
    /\ key_events < MaxKeyEvents
    /\ \E r \in {key_pressed(ThisChip8, key, overflow_checks)} :
           /\ Becomes(r.vm)
           /\ last_event' = Event("key_pressed", r.result, None, key)
    /\ key_events' = key_events + 1
    /\ keyboard_before' = keyboard
    /\ UNCHANGED <<overflow_checks, rom_loaded, rom_file, step_log, before, ticks>>
    /\ UNCHANGED debug_vars

KeyReleased(key) ==
    /\ Alive
    /\ key_events < MaxKeyEvents
    /\ \E r \in {key_released(ThisChip8, key, overflow_checks)} :
           /\ Becomes(r.vm)
           /\ last_event' = Event("key_released", r.result, None, key)
    /\ key_events' = key_events + 1
    /\ keyboard_before' = keyboard
    /\ UNCHANGED <<overflow_checks, rom_loaded, rom_file, step_log, before, ticks>>
    /\ UNCHANGED debug_vars

\* A caller resets the keyboard: Keyboard::reset on the public field keyboard
KeyboardReset ==
    /\ Alive
    /\ key_events < MaxKeyEvents
    /\ Becomes([ThisChip8 EXCEPT !.keyboard = reset(keyboard)])
    /\ last_event' = Event("reset", "Ok", None, None)
    /\ key_events' = key_events + 1
    /\ keyboard_before' = keyboard
    /\ UNCHANGED <<overflow_checks, rom_loaded, rom_file, step_log, before, ticks>>
    /\ UNCHANGED debug_vars

\* The first button of the debug control is clicked
PlayPauseClicked ==
    /\ Alive
    /\ Len(set_mode) < MaxPending
    /\ set_mode' = Append(set_mode, new_mode(chip8_mode))
    /\ UNCHANGED <<memory, registers, pc, address_register, vram, stack, keyboard,
                   delay_timer, redraw, mode, overflow_checks, rom_loaded, rom_file,
                   step_log, before, ticks, key_events, keyboard_before, last_event,
                   chip8_mode, step_sender>>

\* The Step button of the debug control is clicked
StepClicked ==
    /\ Alive
    /\ step_button(chip8_mode)
    /\ step_sender < MaxPending
    /\ step_sender' = step_sender + 1
    /\ UNCHANGED <<memory, registers, pc, address_register, vram, stack, keyboard,
                   delay_timer, redraw, mode, overflow_checks, rom_loaded, rom_file,
                   step_log, before, ticks, key_events, keyboard_before, last_event,
                   chip8_mode, set_mode>>

\* The debug control is shown the mode of the Chip8
ShowMode ==
    /\ Alive
    /\ chip8_mode # mode
    /\ chip8_mode' = mode
    /\ UNCHANGED <<memory, registers, pc, address_register, vram, stack, keyboard,
                   delay_timer, redraw, mode, overflow_checks, rom_loaded, rom_file,
                   step_log, before, ticks, key_events, keyboard_before, last_event,
                   set_mode, step_sender>>

\* The driver receives a mode request
ModeRequested ==
    /\ Alive
    /\ set_mode # <<>>
    /\ Becomes(mode_requested(ThisChip8, Head(set_mode)))
    /\ set_mode' = Tail(set_mode)
    /\ last_event' = Event("set_mode", "Ok", None, None)
    /\ UNCHANGED <<overflow_checks, rom_loaded, rom_file, step_log, before, ticks,
                   key_events, keyboard_before, chip8_mode, step_sender>>

\* The external renderer consumes the redraw flag
Render ==
    /\ Alive
    /\ redraw
    /\ redraw' = FALSE
    /\ last_event' = Event("render", "Ok", None, None)
    /\ UNCHANGED <<memory, registers, pc, address_register, vram, stack, keyboard,
                   delay_timer, mode, overflow_checks, rom_loaded, rom_file, step_log,
                   before, ticks, key_events, keyboard_before>>
    /\ UNCHANGED debug_vars

\* The driver, Paused, receives a step request
StepRequested ==
    /\ Alive
    /\ rom_loaded
    /\ mode = Paused
    /\ step_sender > 0
    /\ Len(step_log) < MaxCycles
    /\ \E random \in RandomBytes(ThisChip8) :
       \E r \in {step_requested(ThisChip8, overflow_checks, random)} :
           /\ Becomes(r.vm)
           /\ step_log' = Append(step_log,
                                 [word |-> r.word, result |-> r.result,
                                  registers |-> registers,
                                  address_register |-> address_register,
                                  vram |-> vram, pc |-> pc, stack |-> stack])
           /\ last_event' = Event("step_cycle", r.result, r.word, None)
    /\ before' = ThisChip8
    /\ ticks' = 0
    /\ step_sender' = step_sender - 1
    /\ UNCHANGED <<overflow_checks, rom_loaded, rom_file, key_events, keyboard_before,
                   chip8_mode, set_mode>>


(***************************************************************************)
(* The ROMs the loader is given, and the specifications.  Every            *)
(* specification starts from Chip8::new and differs from the others in     *)
(* the ROMs that may be loaded and in the events the driver delivers.      *)
(***************************************************************************)
Keys == 0..15

\* Spec: the whole system on a few short programs
SystemKeys == {7, 15}

Roms ==
    { Rom(<<WordXKK(6, x, kk)>>) : x \in {0, 10, 15}, kk \in {0, 5, 255} }
    \cup { Rom(<<238>>),                      \* 00EE
           Rom(<<8708, 4608, 4608, 238>>),    \* 2204 1200 1200 00EE
           Rom(<<24586, 61461, 61703>>),      \* 600A F015 F107
           Rom(<<62218, 24837>>),             \* F30A 6105
           Rom(<<49170, 27141>>),             \* C012 6A05
           Rom(<<12288, 24837, 16384, 224, 41251, 28673>>) }
                                              \* 3000 6105 4000 00E0 A123 7001

Next ==
    \/ \E rom \in Roms : LoadRom(rom)
    \/ StepCycle
    \/ TimerTick
    \/ \E key \in SystemKeys : KeyPressed(key)
    \/ \E key \in SystemKeys : KeyReleased(key)

Spec == Init /\ [][Next]_vars

\* SpecAlu: register arithmetic.  V0 = a, V1 = b, VF = f, then 8xyN.
AluValues == {0, 1, 128, 255}
AluFlags == {0, 200}
AluRegisters == {0, 1, 15}
AluOps == {0, 1, 2, 3, 4, 5, 6, 7, 14}

AluRoms ==
    { Rom(<<WordXKK(6, 0, a), WordXKK(6, 1, b), WordXKK(6, 15, f), Word(8, x, y, n)>>) :
        a \in AluValues, b \in AluValues, f \in AluFlags,
        x \in AluRegisters, y \in AluRegisters, n \in AluOps }

NextAlu ==
    \/ \E rom \in AluRoms : LoadRom(rom)
    \/ StepCycle

SpecAlu == Init /\ [][NextAlu]_vars


\* SpecDraw: sprites.  Glyph "0" is drawn at (V0, V1) as a background, then
\* the n bytes at I are drawn twice with Dxyn.
SpriteColumns == {0, 30, 60, 63, 70, 255}
SpriteRows == {0, 10, 29, 31, 40, 255}
DrawSources == {5, 512, 4090}
DrawOperands == {<<0, 1>>, <<1, 0>>, <<15, 1>>, <<0, 15>>}
DrawLengths == {0, 1, 5, 15}

DrawRoms ==
    { Rom(<<Word(10, 0, 0, 0), WordXKK(6, 0, a), WordXKK(6, 1, b), Word(13, 0, 1, 5),
            10 * 4096 + i, Word(13, xy[1], xy[2], n), Word(13, xy[1], xy[2], n)>>) :
        a \in SpriteColumns, b \in SpriteRows, i \in DrawSources,
        xy \in DrawOperands, n \in DrawLengths }

\* Register 0xF holds a value of its own before it is an operand of Dxyn:
\* glyph "0" at (V0, V1), then 6Fvv and n rows of it at (VF, V1) and at
\* (V0, VF).
FlagLengths == {0, 5}

FlagRoms ==
    { Rom(<<Word(10, 0, 0, 0), WordXKK(6, 0, a), WordXKK(6, 1, b), Word(13, 0, 1, 5),
            WordXKK(6, 15, v), Word(13, 15, 1, n), Word(13, 0, 15, n)>>) :
        a \in SpriteColumns, b \in SpriteRows, v \in SpriteColumns, n \in FlagLengths }

NextDraw ==
    \/ \E rom \in DrawRoms \cup FlagRoms : LoadRom(rom)
    \/ StepCycle

SpecDraw == Init /\ [][NextDraw]_vars

\* SpecMem: instructions that write memory.  I = i, Vx = v, then Fx33.
MemAddresses == {0, 512, 768, 4093, 4094, 4095}
MemRegisters == {0, 7, 15}
MemValues == {0, 7, 10, 99, 100, 123, 255}

MemRoms ==
    { Rom(<<10 * 4096 + i, WordXKK(6, x, v), Word(15, x, 3, 3)>>) :
        i \in MemAddresses, x \in MemRegisters, v \in MemValues }

NextMem ==
    \/ \E rom \in MemRoms : LoadRom(rom)
    \/ StepCycle

SpecMem == Init /\ [][NextMem]_vars

\* SpecRegs: registers stored and loaded.  V0..VF are loaded from the font
\* table, V0..Vx stored at I = i, V0..VF loaded from another part of the
\* font table, and V0..Vx loaded back from I = i.
RegsAddresses == {0, 768, 4080, 4090, 4095}
RegsRegisters == {0, 1, 7, 15}
RegsSources == {0, 30}

RegsRoms ==
    { Rom(<<10 * 4096 + s, Word(15, 15, 6, 5), 10 * 4096 + i, Word(15, x, 5, 5),
            10 * 4096 + 16, Word(15, 15, 6, 5), 10 * 4096 + i, Word(15, x, 6, 5)>>) :
        s \in RegsSources, i \in RegsAddresses, x \in RegsRegisters }

NextRegs ==
    \/ \E rom \in RegsRoms : LoadRom(rom)
    \/ StepCycle

SpecRegs == Init /\ [][NextRegs]_vars

\* SpecFont: the font table.  Vx = v, then Fx29.
FontRegisters == {0, 7, 15}
FontValues == {0, 1, 5, 9, 10, 15, 16, 255}

FontRoms ==
    { Rom(<<WordXKK(6, x, v), Word(15, x, 2, 9)>>) :
        x \in FontRegisters, v \in FontValues }

NextFont ==
    \/ \E rom \in FontRoms : LoadRom(rom)
    \/ StepCycle

SpecFont == Init /\ [][NextFont]_vars

\* SpecCall: subroutines.  0x200 calls 0x206, 0x20A or 0x20E; 0x202 calls
\* 0x20E or sets VA; 0x204 loops; 0x206 and 0x20A call further down or set a
\* register; 0x208, 0x20C and 0x20E return.
CallFirst == {Word(2, 2, 0, 6), Word(2, 2, 0, 10), Word(2, 2, 0, 14)}
CallSecond == {WordXKK(6, 10, 1), Word(2, 2, 0, 14)}
CallThird == {Word(2, 2, 0, 10), Word(2, 2, 0, 14), WordXKK(6, 11, 2)}
CallFourth == {Word(2, 2, 0, 14), WordXKK(6, 12, 3)}

CallRoms ==
    { Rom(<<w0, w1, Word(1, 2, 0, 4), w3, Word(0, 0, 14, 14), w5,
            Word(0, 0, 14, 14), Word(0, 0, 14, 14)>>) :
        w0 \in CallFirst, w1 \in CallSecond, w3 \in CallThird, w5 \in CallFourth }

NextCall ==
    \/ \E rom \in CallRoms : LoadRom(rom)
    \/ StepCycle

SpecCall == Init /\ [][NextCall]_vars

\* SpecIndex: the skips on keys with any byte in Vx.  Keys are pressed
\* before the program starts; then Vx = v, Ex9E, ExA1.
IndexValues == {0, 15, 16, 17, 128, 255}
IndexRegisters == {0, 15}
IndexKeys == {0, 15}

IndexRoms ==
    { Rom(<<WordXKK(6, x, v), WordXKK(14, x, 158), WordXKK(14, x, 161)>>) :
        x \in IndexRegisters, v \in IndexValues }
    \cup { Rom(<<WordXKK(6, x, v), WordXKK(14, x, 161)>>) :
        x \in IndexRegisters, v \in IndexValues }

NextIndex ==
    \/ ~rom_loaded /\ \E rom \in IndexRoms : LoadRom(rom)
    \/ StepCycle
    \/ step_log = <<>> /\ \E key \in IndexKeys : KeyPressed(key)

SpecIndex == Init /\ [][NextIndex]_vars

\* SpecCond: the skips on registers.  Vx = a, Vy = b, then 3xkk, 4xkk, 5xy0
\* or 9xy0.
CondOperands == {<<0, 1>>, <<15, 7>>, <<7, 7>>}
CondValues == {0, 1, 255}

CondInstructions(x, y) ==
    { WordXKK(a, x, kk) : a \in {3, 4}, kk \in CondValues }
    \cup { Word(5, x, y, 0), Word(9, x, y, 0) }

CondRoms ==
    UNION { { Rom(<<WordXKK(6, xy[1], a), WordXKK(6, xy[2], b), instruction>>) :
                a \in CondValues, b \in CondValues,
                instruction \in CondInstructions(xy[1], xy[2]) } :
            xy \in CondOperands }

NextCond ==
    \/ ~rom_loaded /\ \E rom \in CondRoms : LoadRom(rom)
    \/ StepCycle

SpecCond == Init /\ [][NextCond]_vars

\* SpecJump: the jump with offset.  V0 = v, V2 = 7, VF = 9, then Bnnn, whose
\* second nibble is 0, 2 or 0xF.
JumpOffsets == {0, 1, 128, 255}
JumpAddresses == {0, 6, 516, 752, 3840, 4095}

JumpRoms ==
    { Rom(<<WordXKK(6, 0, v), WordXKK(6, 2, 7), WordXKK(6, 15, 9), 11 * 4096 + nnn>>) :
        v \in JumpOffsets, nnn \in JumpAddresses }

NextJump ==
    \/ \E rom \in JumpRoms : LoadRom(rom)
    \/ StepCycle

SpecJump == Init /\ [][NextJump]_vars

\* SpecSkip: the skips on keys.  Keys are pressed and released before the
\* program starts; then Vx = k, Ex9E, a jump over 6E01 (which runs when
\* Ex9E skips and leaves VE = 1), and ExA1.
SkipKeys == {0, 7, 15}
SkipRegisters == {0, 7, 15}

SkipRoms ==
    { Rom(<<WordXKK(6, x, k), WordXKK(14, x, 158), 4616, 28161, WordXKK(14, x, 161)>>) :
        x \in SkipRegisters, k \in SkipKeys }

NextSkip ==
    \/ \E rom \in SkipRoms : LoadRom(rom)
    \/ StepCycle
    \/ step_log = <<>> /\ \E key \in SkipKeys : KeyPressed(key)
    \/ step_log = <<>> /\ \E key \in SkipKeys : KeyReleased(key)

SpecSkip == Init /\ [][NextSkip]_vars

\* SpecRedraw: the redraw flag and its consumer.  n rows of glyph "0" are
\* drawn at (V0, V1), the screen is cleared, and both once more, while the
\* renderer takes the flag whenever it is set.
RedrawColumns == {0, 30, 60}
RedrawRows == {0, 10, 29}
RedrawLengths == {0, 5}

RedrawRoms ==
    { Rom(<<Word(10, 0, 0, 0), WordXKK(6, 0, a), WordXKK(6, 1, b), Word(13, 0, 1, n),
            224, Word(13, 0, 1, n), 224>>) :
        a \in RedrawColumns, b \in RedrawRows, n \in RedrawLengths }

NextRedraw ==
    \/ \E rom \in RedrawRoms : LoadRom(rom)
    \/ StepCycle
    \/ Render

SpecRedraw == Init /\ [][NextRedraw]_vars

\* SpecTimer: the delay timer.  Vx = v, Fx15, then F107, with timer ticks.
TimerRegisters == {0, 15}
TimerValues == {0, 1, 10, 12, 255}

TimerRoms ==
    { Rom(<<WordXKK(6, x, v), Word(15, x, 1, 5), Word(15, 1, 0, 7)>>) :
        x \in TimerRegisters, v \in TimerValues }

NextTimer ==
    \/ \E rom \in TimerRoms : LoadRom(rom)
    \/ StepCycle
    \/ TimerTick

SpecTimer == Init /\ [][NextTimer]_vars

\* SpecKeys: key events.  Fx0A, then 1200 (back to the Fx0A); any key may
\* be released.
KeyRegisters == {3, 15}
PressedKeys == {7, 15}

KeyRoms == { Rom(<<Word(15, x, 0, 10), 4608>>) : x \in KeyRegisters }

NextKeys ==
    \/ \E rom \in KeyRoms : LoadRom(rom)
    \/ StepCycle
    \/ \E key \in PressedKeys : KeyPressed(key)
    \/ \E key \in Keys : KeyReleased(key)

SpecKeys == Init /\ [][NextKeys]_vars

\* SpecDecode: the decoder.  The ROM is one instruction word: every
\* combination of the nibbles a, c and d, with three values of the nibble b.
DecodeSecondNibbles == {0, 2, 15}

DecodeWords ==
    { Word(a, b, c, d) :
        a \in 0..15, b \in DecodeSecondNibbles, c \in 0..15, d \in 0..15 }

DecodeRoms == { Rom(<<word>>) : word \in DecodeWords }

NextDecode ==
    \/ ~rom_loaded /\ \E rom \in DecodeRoms : LoadRom(rom)
    \/ StepCycle

SpecDecode == Init /\ [][NextDecode]_vars

\* SpecMode: step_cycle in every mode.  The public field mode of a new
\* Chip8 is Running, Paused or WaitForKey; the ROM is one instruction word
\* with second nibble 2, and step_cycle is called whatever the mode is.
StartModes == {Running, Paused, WaitForKeyMode(2), WaitForKeyMode(15)}

ModeWords == { Word(a, 2, c, d) : a \in 0..15, c \in 0..15, d \in 0..15 }

ModeRoms == { Rom(<<word>>) : word \in ModeWords }

InitMode ==
    /\ \E m \in StartModes :
           /\ Is([new EXCEPT !.mode = m])
           /\ before = [new EXCEPT !.mode = m]
           /\ chip8_mode = m
    /\ overflow_checks \in BOOLEAN
    /\ rom_loaded = FALSE
    /\ rom_file = <<>>
    /\ step_log = <<>>
    /\ ticks = 0
    /\ key_events = 0
    /\ keyboard_before = new.keyboard
    /\ last_event = Event("new", "Ok", None, None)
    /\ set_mode = <<>>
    /\ step_sender = 0

NextMode ==
    \/ ~rom_loaded /\ \E rom \in ModeRoms : LoadRom(rom)
    \/ StepCycleCall

SpecMode == InitMode /\ [][NextMode]_vars

\* SpecLoad: the loader.  ROM files of LoadLengths bytes, the largest that
\* fits the memory (3584 bytes) and its neighbours among them; the file is
\* a sequence of 6xkk words whose x and kk vary with the position.
LoadLengths == {0, 1, 2, 3, 3583, 3584, 3585, 3586, 4096}
LoadSeeds == {0, 7}

LoadBytes(n, seed) ==
    [i \in 1..n |->
        IF i % 2 = 1 THEN 96 + (((i \div 2) + seed) % 16) ELSE (i + seed) % 256]

LoadRoms == { LoadBytes(n, seed) : n \in LoadLengths, seed \in LoadSeeds }

NextLoad ==
    \/ \E rom \in LoadRoms : LoadRom(rom)
    \/ StepCycle

SpecLoad == Init /\ [][NextLoad]_vars

\* SpecBounds: the end of the memory.  I = i + V0 (Annn, 60vv, F01E),
\* V1 = 0x77, then an instruction that reads or writes memory at I; and
\* programs that jump to the last addresses.
BoundsAddresses == {4080, 4090, 4093, 4094, 4095}
BoundsOffsets == {0, 1, 2, 255}
BoundsRegisters == {0, 1, 15}
BoundsLengths == {0, 1, 6, 15}

BoundsInstructions ==
    { Word(15, x, c[1], c[2]) :
        x \in BoundsRegisters, c \in {<<3, 3>>, <<5, 5>>, <<6, 5>>} }
    \cup { Word(13, 0, 1, n) : n \in BoundsLengths }

BoundsRoms ==
    { Rom(<<10 * 4096 + i, WordXKK(6, 0, v), Word(15, 0, 1, 14), WordXKK(6, 1, 119),
            instruction>>) :
        i \in BoundsAddresses, v \in BoundsOffsets, instruction \in BoundsInstructions }
    \cup { Rom(<<8191>>),                 \* 1FFF
           Rom(<<8190>>),                 \* 1FFE
           Rom(<<24581, 49151>>),         \* 6005 BFFF
           Rom(<<8708, 4608, 8188>>),     \* 2204 1200 1FFC
           Rom(<<8707>>),                 \* 2203
           Rom(<<24577, 49149>>) }        \* 6001 BFFD

NextBounds ==
    \/ \E rom \in BoundsRoms : LoadRom(rom)
    \/ StepCycle

SpecBounds == Init /\ [][NextBounds]_vars

\* SpecDebug: the debug control.  A counting loop (6A05 7A01 1202) and a
\* program that waits for a key (F30A 1200), paused, stepped and resumed.
DebugRoms ==
    { Rom(<<27141, 31233, 4610>>),
      Rom(<<62218, 4608>>) }

NextDebug ==
    \/ \E rom \in DebugRoms : LoadRom(rom)
    \/ StepCycle
    \/ PlayPauseClicked
    \/ StepClicked
    \/ ShowMode
    \/ ModeRequested
    \/ StepRequested

SpecDebug == Init /\ [][NextDebug]_vars

\* SpecKeyboard: the keyboard alone, from a Chip8 whose keyboard earlier
\* key presses have left at one of KeyboardMasks (no key, keys 0, 7, 8 and
\* F, all keys but A, all keys).  Any key may be pressed and released, and
\* the keyboard may be reset.
KeyboardMasks == {0, 33153, 64511, 65535}

InitKeyboard ==
    /\ \E kb \in KeyboardMasks :
           /\ Is([new EXCEPT !.keyboard = kb])
           /\ keyboard_before = kb
    /\ overflow_checks \in BOOLEAN
    /\ rom_loaded = FALSE
    /\ rom_file = <<>>
    /\ step_log = <<>>
    /\ before = new
    /\ ticks = 0
    /\ key_events = 0
    /\ last_event = Event("new", "Ok", None, None)
    /\ chip8_mode = new.mode
    /\ set_mode = <<>>
    /\ step_sender = 0

NextKeyboard ==
    \/ \E key \in Keys : KeyPressed(key)
    \/ \E key \in Keys : KeyReleased(key)
    \/ KeyboardReset

SpecKeyboard == InitKeyboard /\ [][NextKeyboard]_vars

(***************************************************************************)
(* Properties.  They are stated on the state after a step_cycle call, with *)
(* the Chip8 before the call taken from `before` and step_log.             *)
(***************************************************************************)
\* The last step_cycle call
Last == step_log[Len(step_log)]

\* The instruction the last step_cycle call decoded
LastInstruction == try_from(Last.word)

\* The driver's last move was a step_cycle call that decoded instruction `name`
JustDecoded(name) ==
    /\ last_event.op = "step_cycle"
    /\ last_event.word # None
    /\ LastInstruction.op = name

Carry(a, b) == IF a + b > 255 THEN 1 ELSE 0

\* C1, as stated: for all x, y and all a, b, AddRegisters with Vx = a and
\* Vy = b yields Vx = (a + b) mod 256 and VF = 1 if a + b > 255, else VF = 0.
C1_AddRegistersAsStated ==
    JustDecoded("AddRegisters") =>
        LET x == LastInstruction.register_x
            a == before.registers[x]
            b == before.registers[LastInstruction.register_y]
        IN  /\ Last.result = "Ok"
            /\ registers[x] = (a + b) % 256
            /\ registers[15] = Carry(a, b)

\* C1, amended: for all x, y and all a, b, AddRegisters with Vx = a and
\* Vy = b yields VF = 1 if a + b > 255, else VF = 0; it yields
\* Vx = (a + b) mod 256 for x # 0xF, and no register other than Vx and VF
\* changes.  For x = 0xF the carry is what the register holds.
C1_AddRegisters ==
    JustDecoded("AddRegisters") =>
        LET x == LastInstruction.register_x
            a == before.registers[x]
            b == before.registers[LastInstruction.register_y]
        IN  /\ Last.result = "Ok"
            /\ registers[15] = Carry(a, b)
            /\ x # 15 => registers[x] = (a + b) % 256
            /\ \A i \in 0..14 : i # x => registers[i] = before.registers[i]

\* An addition into a register other than VF that carried
C1_AddRegistersCarried ==
    /\ JustDecoded("AddRegisters")
    /\ LastInstruction.register_x = 0
    /\ LastInstruction.register_y = 1
    /\ before.registers[0] = 255
    /\ before.registers[1] = 128
    /\ before.registers[15] = 200
    /\ registers[0] = 127
    /\ registers[15] = 1

\* C2, as stated, for x # 0xF: for all y and all a, b, SubRegisters with
\* Vx = a and Vy = b completes and yields Vx = (a - b) mod 256 and VF = 1 if
\* a >= b, else VF = 0.
C2_SubRegistersAsStated ==
    (JustDecoded("SubRegisters") /\ LastInstruction.register_x # 15) =>
        LET x == LastInstruction.register_x
            a == before.registers[x]
            b == before.registers[LastInstruction.register_y]
        IN  /\ Last.result = "Ok"
            /\ registers[x] = (a - b) % 256
            /\ registers[15] = IF a >= b THEN 1 ELSE 0

\* A subtraction with Vx < Vy that ended in a panic, nothing written
C2_SubRegistersPanicked ==
    /\ JustDecoded("SubRegisters")
    /\ LastInstruction.register_x = 0
    /\ LastInstruction.register_y = 1
    /\ before.registers[0] = 1
    /\ before.registers[1] = 128
    /\ Last.result = "Panic"
    /\ overflow_checks
    /\ registers = before.registers

\* C3: for all x, y and any prior VF, after OrRegisters, AndRegisters or
\* XorRegisters VF = 0 and, for x # 0xF, every bit of Vx is the or/and/xor
\* of that bit of the prior Vx and Vy.
C3_BitwiseClearsFlag ==
    \A name \in {"OrRegisters", "AndRegisters", "XorRegisters"} :
        JustDecoded(name) =>
            LET x == LastInstruction.register_x
                a == before.registers[x]
                b == before.registers[LastInstruction.register_y]
            IN  /\ Last.result = "Ok"
                /\ registers[15] = 0
                /\ x # 15 =>
                       \A i \in 0..7 :
                           Bit(registers[x], i) = 1 <=>
                               CASE name = "OrRegisters" -> Bit(a, i) = 1 \/ Bit(b, i) = 1
                                 [] name = "AndRegisters" -> Bit(a, i) = 1 /\ Bit(b, i) = 1
                                 [] name = "XorRegisters" -> Bit(a, i) # Bit(b, i)

\* An or of two registers, with VF set before it
C3_OrClearedFlag ==
    /\ JustDecoded("OrRegisters")
    /\ LastInstruction.register_x = 0
    /\ LastInstruction.register_y = 1
    /\ before.registers[0] = 1
    /\ before.registers[1] = 128
    /\ before.registers[15] = 200
    /\ registers[0] = 129
    /\ registers[15] = 0

\* C4, as stated: Return with an empty call stack makes the step end in an
\* error returned to the caller; the step neither panics nor continues.
C4_ReturnOnEmptyStackAsStated ==
    (JustDecoded("Return") /\ before.stack = <<>>) => Last.result = "Err"

\* A Return as the first instruction of a ROM: the step panicked
C4_ReturnPanicked ==
    /\ JustDecoded("Return")
    /\ Len(step_log) = 1
    /\ before.stack = <<>>
    /\ before.pc = PC_INIT
    /\ Last.result = "Panic"

\* The step_cycle call before the last one
Previous == step_log[Len(step_log) - 1]

\* The last two step_cycle calls drew the sprite at the same I (no step in
\* between has written its bytes) at the same start coordinates, and both
\* returned
DrewTwice ==
    /\ JustDecoded("DrawSprite")
    /\ Len(step_log) >= 2
    /\ Previous.word = Last.word
    /\ Previous.result = "Ok"
    /\ Last.result = "Ok"
    /\ Previous.address_register = before.address_register
    /\ Previous.registers[LastInstruction.register_x] % 64
           = before.registers[LastInstruction.register_x] % 64
    /\ Previous.registers[LastInstruction.register_y] % 32
           = before.registers[LastInstruction.register_y] % 32

\* C5: DrawSprite twice in succession with the same sprite bytes and the
\* same start coordinates leaves the display buffer as it was before the
\* first draw, and the second draw sets VF = 1 exactly when the first draw
\* turned at least one pixel of the screen on (else VF = 0).
C5_DrawTwiceRestores ==
    DrewTwice =>
        /\ vram = Previous.vram
        /\ registers[15] \in {0, 1}
        /\ registers[15] = 1 <=>
               \E index \in DOMAIN before.vram :
                   At(Previous.vram, index) = 0

\* A sprite drawn twice over a background it partly overlaps: the first
\* draw collided and turned pixels on, the second restored the background
C5_DrewTwiceOverBackground ==
    /\ DrewTwice
    /\ LastInstruction.len = 5
    /\ Previous.vram # ZeroArray
    /\ before.vram # Previous.vram
    /\ before.registers[15] = 1
    /\ registers[15] = 1
    /\ vram = Previous.vram

\* C6: for every v in Vx and every I with I + 2 <= 4095, BinaryCodedDecimal
\* writes memory[I] = v div 100, memory[I + 1] = (v div 10) mod 10,
\* memory[I + 2] = v mod 10, each in 0..9, and leaves I, all registers and
\* every other memory byte unchanged.
C6_BinaryCodedDecimal ==
    (JustDecoded("BinaryCodedDecimal") /\ before.address_register + 2 <= 4095) =>
        LET v == before.registers[LastInstruction.register_x]
            I == before.address_register
        IN  /\ Last.result = "Ok"
            /\ At(memory, I) = v \div 100
            /\ At(memory, I + 1) = (v \div 10) % 10
            /\ At(memory, I + 2) = v % 10
            /\ \A j \in I..(I + 2) : At(memory, j) \in 0..9
            /\ address_register = I
            /\ registers = before.registers
            /\ \A j \in (DOMAIN memory \cup DOMAIN before.memory) \ (I..(I + 2)) :
                   At(memory, j) = At(before.memory, j)

\* 255 written as 2, 5, 5 into the last three bytes of memory
C6_Wrote255AtEndOfMemory ==
    /\ JustDecoded("BinaryCodedDecimal")
    /\ Last.result = "Ok"
    /\ before.address_register = 4093
    /\ before.registers[LastInstruction.register_x] = 255
    /\ At(memory, 4093) = 2
    /\ At(memory, 4094) = 5
    /\ At(memory, 4095) = 5

\* The instructions that write pc after the fetch
JumpsAndSkips ==
    {"JumpToAddress", "ExecuteSubroutine", "Return", "JumpOffsetV0",
     "SkipIfRegisterEqTo", "SkipIfRegisterNeqTo", "SkipIfRegistersEq",
     "SkipIfRegistersNeq", "SkipIfKey", "SkipIfNotKey"}

\* C7: a step_cycle call that decodes 6xkk yields Vx = kk and leaves every
\* other register, I, the stack, vram, the timer and the mode unchanged; as
\* the first step after the ROM is loaded into a new Chip8 it ends with
\* pc = 0x202; and a step that executes an instruction that is neither a
\* jump nor a skip at pc = p ends with pc = p + 2.
C7_StoreNumberAndAdvance ==
    /\ JustDecoded("StoreNumberInRegister") =>
           /\ Last.result = "Ok"
           /\ registers = [before.registers EXCEPT
                              ![LastInstruction.register] = LastInstruction.number]
           /\ LastInstruction.register = (Last.word \div 256) % 16
           /\ LastInstruction.number = Last.word % 256
           /\ address_register = before.address_register
           /\ stack = before.stack
           /\ vram = before.vram
           /\ delay_timer = before.delay_timer
           /\ mode = before.mode
           /\ Len(step_log) = 1 => pc = 514
    /\ (/\ last_event.op = "step_cycle"
        /\ Last.result = "Ok"
        /\ LastInstruction.op \notin JumpsAndSkips) => pc = before.pc + 2

\* The ROM 6A 05 stepped once from a new Chip8
C7_Stepped6A05 ==
    /\ JustDecoded("StoreNumberInRegister")
    /\ Len(step_log) = 1
    /\ Last.word = 27141
    /\ before.registers[10] = 0
    /\ before.pc = 512
    /\ registers[10] = 5
    /\ pc = 514

\* C8: WaitForKey sets the mode to WaitForKey{register = x} without writing
\* Vx; while the mode is WaitForKey{r}, a release event for key k sets
\* Vr = k and the mode to Running, and no instruction is executed between
\* the Fx0A step and that release.
C8_WaitForKeyStep ==
    /\ JustDecoded("WaitForKey")' =>
           /\ Last'.result = "Ok"
           /\ mode' = WaitForKeyMode(LastInstruction'.register_x)
           /\ registers' = before'.registers
    /\ mode.kind = "WaitForKey" =>
           /\ step_log' = step_log
           /\ pc' = pc
           /\ mode' # mode =>
                  /\ last_event'.op = "key_released"
                  /\ key_events' = key_events + 1
    /\ (/\ mode.kind = "WaitForKey"
        /\ key_events' = key_events + 1
        /\ last_event'.op = "key_released") =>
           /\ last_event'.result = "Ok"
           /\ registers' = [registers EXCEPT ![mode.register] = last_event'.key]
           /\ mode' = Running

C8_WaitForKey == [][C8_WaitForKeyStep]_vars

\* F30A, then the release of key 7 as the next thing that happened
C8_ReleasedKey7 ==
    /\ Len(step_log) = 1
    /\ Last.word = 62218
    /\ before.registers[3] = 0
    /\ key_events = 1
    /\ last_event.op = "key_released"
    /\ last_event.key = 7
    /\ registers[3] = 7
    /\ mode = Running

\* C9: each timer tick decrements the delay timer by exactly 1 when it is
\* greater than 0 and leaves it at 0 when it is 0; after SetDelayTimer with
\* value v and n ticks the timer is v - n, or 0 when n >= v (for v = 10:
\* 0 after 10 ticks and after any further tick).
C9_TimerTickStep ==
    /\ ticks' = ticks + 1 =>
           delay_timer' = IF delay_timer > 0 THEN delay_timer - 1 ELSE 0
    /\ (/\ Len(step_log') > 0
        /\ Last'.result = "Ok"
        /\ LastInstruction'.op = "SetDelayTimer") =>
           LET v == before'.registers[LastInstruction'.register_x]
           IN  delay_timer' = IF ticks' >= v THEN 0 ELSE v - ticks'

C9_TimerTick == [][C9_TimerTickStep]_vars

\* The timer set to 10 and ticked 11 times
C9_TickedPastZero ==
    /\ Len(step_log) = 2
    /\ LastInstruction.op = "SetDelayTimer"
    /\ before.registers[LastInstruction.register_x] = 10
    /\ ticks = 11
    /\ last_event.op = "timer_tick"
    /\ delay_timer = 0

\* The largest coordinate vram_index is tried on, besides 65535
MaxCoordinate == 80

Coordinates == 0..MaxCoordinate \cup {65535}

\* vram_index on the whole screen: 64 * y + x, one to one and onto 0..2047
VramIndexOnScreen ==
    /\ \A x \in 0..63, y \in 0..31 : vram_index(x, y) = 64 * y + x
    /\ {vram_index(x, y) : x \in 0..63, y \in 0..31} = 0..2047
    /\ Cardinality({vram_index(x, y) : x \in 0..63, y \in 0..31})
           = Cardinality((0..63) \X (0..31))

\* vram_index off the screen: no index
VramIndexOffScreen ==
    \A x \in Coordinates, y \in Coordinates :
        (x >= 64 \/ y >= 32) => vram_index(x, y) = None

\* C10: vram_index(x, y) is 64 * y + x for 0 <= x < 64 and 0 <= y < 32
\* ((30, 10) gives 670), a bijection from that domain onto 0..2047, and None
\* whenever x >= 64 or y >= 32; stated for all coordinates up to
\* MaxCoordinate and for the coordinates a ROM has put in V0 and V1.
C10_VramIndex ==
    /\ VramIndexOnScreen
    /\ VramIndexOffScreen
    /\ vram_index(30, 10) = 670
    /\ vram_index(registers[0], registers[1]) =
           IF registers[0] < 64 /\ registers[1] < 32
           THEN 64 * registers[1] + registers[0]
           ELSE None

\* Glyph "0" drawn at (30, 10): its top left pixel is cell 670 of vram
C10_DrewAt670 ==
    /\ JustDecoded("DrawSprite")
    /\ Len(step_log) = 4
    /\ registers[0] = 30
    /\ registers[1] = 10
    /\ vram_index(registers[0], registers[1]) = 670
    /\ At(vram, 670) = 1
    /\ At(before.vram, 670) = 0

\* Nibble k of a word, counted from the low end: d is nibble 0, a is nibble 3
Nibble(word, k) == (word \div (16 ^ k)) % 16

\* The opcode table: the nibbles a, b, c, d of each pattern, Any where the
\* pattern takes every value, and the instruction of the pattern
Any == 16

Pattern(a, b, c, d, name) == [nibbles |-> <<a, b, c, d>>, op |-> name]

OpcodeTable ==
    { Pattern(0, 0, 14, 0, "Clear"),
      Pattern(0, 0, 14, 14, "Return"),
      Pattern(1, Any, Any, Any, "JumpToAddress"),
      Pattern(2, Any, Any, Any, "ExecuteSubroutine"),
      Pattern(3, Any, Any, Any, "SkipIfRegisterEqTo"),
      Pattern(4, Any, Any, Any, "SkipIfRegisterNeqTo"),
      Pattern(5, Any, Any, 0, "SkipIfRegistersEq"),
      Pattern(6, Any, Any, Any, "StoreNumberInRegister"),
      Pattern(7, Any, Any, Any, "AddToRegister"),
      Pattern(8, Any, Any, 0, "CopyRegister"),
      Pattern(8, Any, Any, 1, "OrRegisters"),
      Pattern(8, Any, Any, 2, "AndRegisters"),
      Pattern(8, Any, Any, 3, "XorRegisters"),
      Pattern(8, Any, Any, 4, "AddRegisters"),
      Pattern(8, Any, Any, 5, "SubRegisters"),
      Pattern(8, Any, Any, 6, "RightShiftRegister"),
      Pattern(8, Any, Any, 7, "SubRegistersOtherWayArround"),
      Pattern(8, Any, Any, 14, "LeftShiftRegister"),
      Pattern(9, Any, Any, 0, "SkipIfRegistersNeq"),
      Pattern(10, Any, Any, Any, "SetAddressRegister"),
      Pattern(11, Any, Any, Any, "JumpOffsetV0"),
      Pattern(13, Any, Any, Any, "DrawSprite"),
      Pattern(14, Any, 9, 14, "SkipIfKey"),
      Pattern(14, Any, 10, 1, "SkipIfNotKey"),
      Pattern(15, Any, 0, 7, "ReadDelayTimer"),
      Pattern(15, Any, 0, 10, "WaitForKey"),
      Pattern(15, Any, 1, 5, "SetDelayTimer"),
      Pattern(15, Any, 1, 14, "AddXtoI"),
      Pattern(15, Any, 2, 9, "LoadFontCharacter"),
      Pattern(15, Any, 3, 3, "BinaryCodedDecimal"),
      Pattern(15, Any, 5, 5, "StoreRegisters"),
      Pattern(15, Any, 6, 5, "LoadRegisters") }

\* The patterns of the table the word matches
Patterns(word) ==
    { p \in OpcodeTable :
        \A k \in 1..4 : p.nibbles[k] \in {Any, Nibble(word, 4 - k)} }

\* The word matches a pattern of the opcode table
InOpcodeTable(word) == Patterns(word) # {}

\* The driver's last move was a step_cycle call that fetched a word
JustFetched ==
    /\ last_event.op = "step_cycle"
    /\ last_event.word # None

\* C11: every word that matches no pattern of the opcode table decodes to
\* the unknown-instruction error that carries the word, and step_cycle
\* returns that error to the caller: it does not panic and executes nothing
\* (the Chip8 is as before the call but for pc, which the fetch advanced).
C11_UnknownWordIsAnError ==
    (JustFetched /\ ~InOpcodeTable(Last.word)) =>
        /\ LastInstruction = [op |-> "Err", value |-> Last.word]
        /\ Last.result = "Err"
        /\ last_event.result = "Err"
        /\ Is([before EXCEPT !.pc = before.pc + 2])

\* The ROM C0 12 stepped once: the error, and nothing but pc has changed
C11_SteppedC012 ==
    /\ JustFetched
    /\ Len(step_log) = 1
    /\ Last.word = 49170
    /\ ~InOpcodeTable(Last.word)
    /\ Last.result = "Err"
    /\ registers = before.registers
    /\ before.pc = 512
    /\ pc = 514

\* The instruction of pattern `name` with the operands of the word:
\* address = word & 0x0FFF, byte = word & 0x00FF, x and y the second and the
\* third nibble, n the low nibble
TableInstruction(name, word) ==
    LET address == word % 4096
        byte == word % 256
        x == Nibble(word, 2)
        y == Nibble(word, 1)
        n == Nibble(word, 0)
    IN  CASE name \in {"Clear", "Return"} -> [op |-> name]
          [] name \in {"JumpToAddress", "ExecuteSubroutine", "SetAddressRegister",
                       "JumpOffsetV0"} -> [op |-> name, address |-> address]
          [] name \in {"SkipIfRegisterEqTo", "SkipIfRegisterNeqTo", "AddToRegister"} ->
                 [op |-> name, register |-> x, value |-> byte]
          [] name = "StoreNumberInRegister" ->
                 [op |-> name, number |-> byte, register |-> x]
          [] name = "DrawSprite" ->
                 [op |-> name, register_x |-> x, register_y |-> y, len |-> n]
          [] name \in {"SkipIfRegistersEq", "SkipIfRegistersNeq", "CopyRegister",
                       "OrRegisters", "AndRegisters", "XorRegisters", "AddRegisters",
                       "SubRegisters", "RightShiftRegister",
                       "SubRegistersOtherWayArround", "LeftShiftRegister"} ->
                 [op |-> name, register_x |-> x, register_y |-> y]
          [] OTHER -> [op |-> name, register_x |-> x]

\* C12, as stated: every word that matches a pattern of the opcode table
\* (Fx29 among them) matches one pattern only, and decoding it succeeds with
\* the instruction of that pattern and the operands address = word & 0x0FFF,
\* byte = word & 0x00FF, x = second nibble, y = third nibble, n = low nibble.
C12_DecodeAsStated ==
    (JustFetched /\ InOpcodeTable(Last.word)) =>
        /\ Cardinality(Patterns(Last.word)) = 1
        /\ \A p \in Patterns(Last.word) :
               LastInstruction = TableInstruction(p.op, Last.word)
        /\ Last.result # "Err"

\* The ROM F0 29 stepped once: the word is in the table, the decoder has no
\* arm for it and step_cycle returned the unknown-instruction error
C12_SteppedF029 ==
    /\ JustFetched
    /\ Len(step_log) = 1
    /\ Last.word = 61481
    /\ Patterns(Last.word) = {Pattern(15, Any, 2, 9, "LoadFontCharacter")}
    /\ LastInstruction = [op |-> "Err", value |-> 61481]
    /\ Last.result = "Err"

\* C13, as stated: for every key k in 0..15 and every keyboard state, after
\* set_up(k) is_down(k) is false and is_down(j) is as before for every
\* j # k; set_up(k) of a key that is up leaves it up.
C13_SetUpStep ==
    (/\ key_events' = key_events + 1
     /\ last_event'.op = "key_released"
     /\ last_event'.key \in Keys) =>
        LET k == last_event'.key
        IN  /\ keyboard' = set_up(keyboard, k, overflow_checks).value
            /\ ~is_down(keyboard', k, overflow_checks).value
            /\ \A j \in Keys \ {k} :
                   is_down(keyboard', j, overflow_checks).value
                       = is_down(keyboard, j, overflow_checks).value

C13_SetUpAsStated == [][C13_SetUpStep]_vars

\* Key 7 released with no key down: set_up(7) has set its bit
C13_ReleasedKeyIsDown ==
    /\ key_events = 1
    /\ last_event.op = "key_released"
    /\ last_event.key = 7
    /\ keyboard = 128
    /\ is_down(keyboard, 7, overflow_checks).value

\* C14: for every key k in 0..15, from a keyboard where k is up (is_down(k)
\* is false): after set_down(k) is_down(k) is true, and after a set_up(k)
\* that follows it is_down(k) is false again and the keyboard mask is what
\* it was before the set_down.
C14_PressThenReleaseStep ==
    /\ (/\ key_events' = key_events + 1
        /\ last_event'.op = "key_pressed"
        /\ ~is_down(keyboard, last_event'.key, overflow_checks).value) =>
           /\ last_event'.result = "Ok"
           /\ is_down(keyboard', last_event'.key, overflow_checks).value
    /\ (/\ last_event.op = "key_pressed"
        /\ ~is_down(keyboard_before, last_event.key, overflow_checks).value
        /\ key_events' = key_events + 1
        /\ last_event'.op = "key_released"
        /\ last_event'.key = last_event.key) =>
           /\ last_event'.result = "Ok"
           /\ is_down(keyboard, last_event.key, overflow_checks).value
           /\ ~is_down(keyboard', last_event.key, overflow_checks).value
           /\ keyboard' = keyboard_before

C14_PressThenRelease == [][C14_PressThenReleaseStep]_vars

\* Key A pressed and released while keys 0, 7, 8 and F are down
C14_PressedAndReleasedKeyA ==
    /\ key_events = 2
    /\ last_event.op = "key_released"
    /\ last_event.key = 10
    /\ keyboard_before = 33153 + 1024
    /\ keyboard = 33153
    /\ ~is_down(keyboard, 10, overflow_checks).value
    /\ is_down(keyboard_before, 10, overflow_checks).value

\* The largest ROM file that fits the memory behind PC_INIT: 3584 bytes
MaxRomLength == MEMORY_SIZE - PC_INIT

\* C15: load_rom with a ROM of n <= 3584 bytes sets memory[0x200 + i] =
\* rom[i] for all i < n and leaves every other byte of the memory (the font
\* table at 0x000..0x04F among them) and the rest of the Chip8 unchanged;
\* with a ROM of n > 3584 bytes the call ends in an error outcome (it does
\* not return Ok) and the memory is unchanged.
C15_LoadRomStep ==
    (~rom_loaded /\ rom_loaded') =>
        LET n == Len(rom_file')
        IN  /\ last_event'.op = "load_rom"
            /\ n <= MaxRomLength =>
                   /\ last_event'.result = "Ok"
                   /\ \A i \in 0..(n - 1) : At(memory', 512 + i) = rom_file'[i + 1]
                   /\ \A j \in 0..(MEMORY_SIZE - 1) :
                          j \notin 512..(512 + n - 1) => At(memory', j) = At(memory, j)
                   /\ \A j \in 0..79 : At(memory', j) = FONT[j + 1]
                   /\ ThisChip8' = [ThisChip8 EXCEPT !.memory = memory']
            /\ n > MaxRomLength =>
                   /\ last_event'.result \in {"Err", "Panic"}
                   /\ ThisChip8' = ThisChip8

C15_LoadRom == [][C15_LoadRomStep]_vars

\* A ROM file of 3584 bytes loaded: its last byte is the last byte of memory
C15_LoadedLargestRom ==
    /\ last_event.op = "load_rom"
    /\ last_event.result = "Ok"
    /\ Len(rom_file) = 3584
    /\ rom_file[3584] # 0
    /\ At(memory, 4095) = rom_file[3584]
    /\ At(memory, 512) = rom_file[1]
    /\ At(memory, 511) = 0

\* A ROM file of 3585 bytes: the call did not return, the memory is as new
C15_RefusedRomOneByteTooLong ==
    /\ last_event.op = "load_rom"
    /\ last_event.result = "Panic"
    /\ Len(rom_file) = 3585
    /\ memory = new.memory

\* The memory access of the instruction, with the address register at I,
\* would exceed address 4095
ExceedsMemory(instruction, I) ==
    CASE instruction.op = "DrawSprite" -> I + instruction.len > 4096
      [] instruction.op = "BinaryCodedDecimal" -> I + 2 > 4095
      [] instruction.op \in {"StoreRegisters", "LoadRegisters"} ->
             I + instruction.register_x > 4095
      [] OTHER -> FALSE

\* The addresses the instruction reads or writes, with the address register
\* at I
AccessedAddresses(instruction, I) ==
    CASE instruction.op = "DrawSprite" -> I..(I + instruction.len - 1)
      [] instruction.op = "BinaryCodedDecimal" -> I..(I + 2)
      [] instruction.op \in {"StoreRegisters", "LoadRegisters"} ->
             I..(I + instruction.register_x)
      [] OTHER -> {}

\* C16: an instruction whose memory access would exceed address 4095
\* (DrawSprite with I + n > 4096, BinaryCodedDecimal with I + 2 > 4095,
\* StoreRegisters or LoadRegisters with I + x > 4095, a fetch with
\* pc + 1 > 4095) ends in a fatal error (the step panics and no call
\* follows it); no address is taken modulo 4096 (the byte at a mod 4096 is
\* unchanged for every address a > 4095 of the access, no register is
\* loaded from it and nothing is drawn from it), and the step does not go on
\* as if the access had succeeded (I is not advanced, VF and redraw are not
\* written).
C16_AccessPastMemoryIsFatal ==
    /\ (last_event.op = "step_cycle" /\ before.pc + 1 > 4095) =>
           /\ Last.result = "Panic"
           /\ last_event.word = None
           /\ ~Alive
           /\ Is(before)
    /\ (JustFetched /\ ExceedsMemory(LastInstruction, before.address_register)) =>
           LET I == before.address_register
               past == { a \in AccessedAddresses(LastInstruction, I) : a > 4095 }
           IN  /\ Last.result = "Panic"
               /\ ~Alive
               /\ DOMAIN memory \subseteq 0..4095
               /\ \A a \in past : At(memory, a % 4096) = At(before.memory, a % 4096)
               /\ \A i \in 0..15 : I + i > 4095 => registers[i] = before.registers[i]
               /\ LastInstruction.op = "DrawSprite" =>
                      /\ vram = before.vram
                      /\ registers = before.registers
               /\ address_register = I
               /\ redraw = before.redraw
               /\ pc = before.pc + 2

\* FF55 with I = 4090: V0..V5 are stored at 4090..4095 and the step
\* panics at V6; the font bytes at 0..9 are what they were
C16_StoredUpToTheLastByte ==
    /\ JustFetched
    /\ LastInstruction = [op |-> "StoreRegisters", register_x |-> 15]
    /\ before.address_register = 4090
    /\ before.registers[0] = 0
    /\ before.registers[1] = 119
    /\ Last.result = "Panic"
    /\ At(memory, 4091) = 119
    /\ At(memory, 0) = 240
    /\ address_register = 4090

\* C17: while the mode is Paused no cycle runs but on a step request, and
\* nothing of the Chip8 changes but the mode on a mode request; a step
\* request is issued only while the debug control shows Paused, and each
\* step request received permits exactly one cycle, after which the mode is
\* Paused again; a mode request asks for Paused when the control shows
\* Running and for Running when it shows Paused, and the mode becomes the
\* mode requested.
C17_PausedAndSteppedStep ==
    /\ (mode = Paused /\ step_log' # step_log) =>
           /\ step_sender > 0
           /\ step_sender' = step_sender - 1
           /\ Len(step_log') = Len(step_log) + 1
           /\ mode' = Paused
    /\ (mode = Paused /\ step_sender' >= step_sender) =>
           /\ step_log' = step_log
           /\ rom_loaded => ThisChip8' = [ThisChip8 EXCEPT !.mode = mode']
    /\ step_sender' < step_sender =>
           /\ mode = Paused
           /\ Len(step_log') = Len(step_log) + 1
    /\ step_sender' > step_sender =>
           /\ chip8_mode = Paused
           /\ step_sender' = step_sender + 1
    /\ Len(set_mode') > Len(set_mode) =>
           /\ chip8_mode = Running => set_mode' = Append(set_mode, Paused)
           /\ chip8_mode = Paused => set_mode' = Append(set_mode, Running)
           /\ mode' = mode
    /\ Len(set_mode') < Len(set_mode) =>
           /\ mode' = Head(set_mode)
           /\ (mode = Running /\ Head(set_mode) = Paused) => mode' = Paused
           /\ (mode = Paused /\ Head(set_mode) = Running) => mode' = Running
           /\ ThisChip8' = [ThisChip8 EXCEPT !.mode = mode']

C17_PausedAndStepped == [][C17_PausedAndSteppedStep]_vars

\* The counting loop paused after 6A05, then stepped once on a request:
\* 7A01 has run and the mode is Paused
C17_SteppedOnceWhilePaused ==
    /\ JustDecoded("AddToRegister")
    /\ Len(step_log) = 2
    /\ before.mode = Paused
    /\ before.registers[10] = 5
    /\ registers[10] = 6
    /\ mode = Paused
    /\ chip8_mode = Paused
    /\ step_sender = 0
    /\ set_mode = <<>>

\* The driver's last move was a step_cycle call that drew a sprite
DrewSprite ==
    /\ JustDecoded("DrawSprite")
    /\ last_event.result = "Ok"

\* The start position of the sprite drawn last, as the specification gives it
SpriteStartX == before.registers[LastInstruction.register_x] % 64
SpriteStartY == before.registers[LastInstruction.register_y] % 32

\* Bit (7 - c) of memory[I + r], as the memory was before the draw
SpriteBit(r, c) == Bit(At(before.memory, before.address_register + r), 7 - c)

\* The cells of the screen under row r < n and column c < 8 of a sprite of n
\* rows whose start position is (sx, sy)
UnderSprite(sx, sy, n) ==
    { cell \in (sx..(sx + 7)) \X (sy..(sy + n - 1)) : cell[1] < 64 /\ cell[2] < 32 }

\* C18: after DrawSprite with start position (sx, sy), every cell
\* (sx + c, sy + r) of the screen with r < n and c < 8 is its old value XOR
\* bit (7 - c) of memory[I + r], every other cell of vram is unchanged
\* (nothing is drawn at wrapped-around coordinates), and memory and I are
\* unchanged.  A byte array holds its non-zero cells, so the cells outside
\* both domains are 0 before and after the draw.
C18_DrawSpriteCells ==
    DrewSprite =>
        \E sx \in {SpriteStartX}, sy \in {SpriteStartY} :
            \E under \in {UnderSprite(sx, sy, LastInstruction.len)} :
                /\ \A cell \in under :
                       At(vram, 64 * cell[2] + cell[1]) =
                           (At(before.vram, 64 * cell[2] + cell[1])
                               + SpriteBit(cell[2] - sy, cell[1] - sx)) % 2
                /\ \A index \in DOMAIN vram \cup DOMAIN before.vram :
                       <<index % 64, index \div 64>> \notin under =>
                           At(vram, index) = At(before.vram, index)
                /\ memory = before.memory
                /\ address_register = before.address_register

\* Glyph "1" drawn from (60, 29) over glyph "0": it is cut at the right and
\* at the bottom edge, cell (62, 29) went from 1 to 0, cell (60, 29) under a
\* 0 bit kept its 1, and column 0 and row 0 stayed empty
C18_DrewOverTheCorner ==
    /\ DrewSprite
    /\ LastInstruction.len = 5
    /\ before.address_register = 5
    /\ SpriteStartX = 60
    /\ SpriteStartY = 29
    /\ At(before.vram, 64 * 29 + 62) = 1
    /\ At(vram, 64 * 29 + 62) = 0
    /\ At(before.vram, 64 * 29 + 60) = 1
    /\ At(vram, 64 * 29 + 60) = 1
    /\ \A y \in 0..31 : At(vram, 64 * y) = 0
    /\ \A x \in 0..63 : At(vram, x) = 0

\* The cells of the screen that the last step turned from 1 to 0
TurnedOff ==
    { index \in DOMAIN before.vram \cap (0..2047) :
          before.vram[index] = 1 /\ At(vram, index) = 0 }

\* The cells of the screen that the last step changed
Changed ==
    { index \in (DOMAIN before.vram \cup DOMAIN vram) \cap (0..2047) :
          At(before.vram, index) # At(vram, index) }

\* C19: after DrawSprite, whatever VF held before, VF = 1 if and only if at
\* least one cell of the screen that was 1 before the draw is 0 after it,
\* and VF = 0 otherwise (n = 0, a sprite off the screen and an all-zero
\* sprite included); the start coordinates are Vx and Vy as they were before
\* VF was cleared: the cells changed are those under the 1 bits of the
\* sprite placed at the position the registers held before the draw, also
\* when x or y is 0xF.
C19_DrawSpriteCollision ==
    DrewSprite =>
        /\ registers[15] = IF TurnedOff # {} THEN 1 ELSE 0
        /\ \E sx \in {SpriteStartX}, sy \in {SpriteStartY} :
               Changed = { 64 * cell[2] + cell[1] :
                             cell \in { c \in UnderSprite(sx, sy, LastInstruction.len) :
                                            SpriteBit(c[2] - sy, c[1] - sx) = 1 } }

\* VF = 255 was the x operand of a draw: glyph "0" went to column 63, where
\* it turned off a pixel of the glyph at column 60, and VF became 1
C19_DrewAtColumnVF ==
    /\ DrewSprite
    /\ LastInstruction.register_x = 15
    /\ before.registers[15] = 255
    /\ before.registers[0] = 60
    /\ registers[15] = 1
    /\ 64 * before.registers[1] + 63 \in TurnedOff
    /\ At(vram, 64 * before.registers[1]) = 0

\* A draw of no rows while VF held 255: VF became 0
C19_DrewNoRowsWithFlagSet ==
    /\ DrewSprite
    /\ LastInstruction.len = 0
    /\ before.registers[15] = 255
    /\ registers[15] = 0
    /\ vram = before.vram

\* The start coordinates of DrawSprite for every value of an 8-bit register
StartCoordinateIsModulo ==
    \A v \in 0..U8_MAX :
        /\ StartCoordinate(v, 63, DISPLAY_WIDTH) = v % 64
        /\ StartCoordinate(v, 31, DISPLAY_HEIGHT) = v % 32
        /\ v < 64 => StartCoordinate(v, 63, DISPLAY_WIDTH) = v
        /\ v < 32 => StartCoordinate(v, 31, DISPLAY_HEIGHT) = v

\* C20: DrawSprite starts at start_x = Vx mod 64 and start_y = Vy mod 32 for
\* every 8-bit Vx and Vy (a value inside the display is used as it is), and
\* nothing wraps around after the start: every cell a draw changes lies at
\* a column in start_x..63 less than start_x + 8 and at a row in start_y..31
\* less than start_y + n, so a sprite that starts at column 64 - k affects
\* k columns only and the rows from 32 on are dropped; the cell at the start
\* position changes exactly when the sprite's first bit is 1.
C20_StartAndNoWraparound ==
    /\ StartCoordinateIsModulo
    /\ DrewSprite =>
           \E sx \in {before.registers[LastInstruction.register_x] % 64},
              sy \in {before.registers[LastInstruction.register_y] % 32} :
               /\ \A index \in Changed :
                      /\ sx <= index % 64
                      /\ index % 64 < sx + 8
                      /\ sy <= index \div 64
                      /\ index \div 64 < sy + LastInstruction.len
               /\ 64 * sy + sx \in Changed <=>
                      /\ LastInstruction.len > 0
                      /\ At(before.memory, before.address_register) >= 128

\* Glyph "0" drawn with Vx = 255 and Vy = 255: it starts at (63, 31), and of
\* its 4 columns and 5 rows only the cell in the corner changed
C20_DrewInTheLastCell ==
    /\ DrewSprite
    /\ LastInstruction.len = 5
    /\ before.address_register = 0
    /\ before.registers[LastInstruction.register_x] = 255
    /\ before.registers[LastInstruction.register_y] = 255
    /\ Changed = {2047}
    /\ At(vram, 2047) = 1

\* Glyph "0" drawn with Vx = 60 = 64 - 4, at a row where all of it fits:
\* columns 60..63 changed, column 0 did not
C20_DrewFourColumns ==
    /\ DrewSprite
    /\ LastInstruction.len = 5
    /\ before.address_register = 0
    /\ before.vram = ZeroArray
    /\ before.registers[LastInstruction.register_x] = 60
    /\ before.registers[LastInstruction.register_y] = 10
    /\ {index % 64 : index \in Changed} = 60..63
    /\ {index \div 64 : index \in Changed} = 10..14

\* The driver's last move was a step_cycle call that decoded a shift
JustShifted == JustDecoded("RightShiftRegister") \/ JustDecoded("LeftShiftRegister")

\* What a shift of v stores, and the bit it shifts out
Shifted(name, v) == IF name = "RightShiftRegister" THEN v \div 2 ELSE (2 * v) % 256
ShiftedOut(name, v) ==
    IF name = "RightShiftRegister" THEN v % 2 ELSE IF v >= 128 THEN 1 ELSE 0

\* C21, as stated: for all x, y and every v in Vy, RightShiftRegister yields
\* Vx = v div 2 and VF = v mod 2, LeftShiftRegister yields Vx = (2 * v) mod
\* 256 and VF = 1 if v >= 128 else 0; VF is 0 or 1, and Vy is unchanged when
\* y # x and y # 0xF.
C21_ShiftAsStated ==
    JustShifted =>
        LET x == LastInstruction.register_x
            y == LastInstruction.register_y
            v == before.registers[y]
        IN  /\ Last.result = "Ok"
            /\ registers[x] = Shifted(LastInstruction.op, v)
            /\ registers[15] = ShiftedOut(LastInstruction.op, v)
            /\ registers[15] \in {0, 1}
            /\ (y # x /\ y # 15) => registers[y] = v

\* C21, amended: for all x, y and every v in Vy, a shift yields VF = the bit
\* of v shifted out (v mod 2 for 8xy6, 1 if v >= 128 else 0 for 8xyE), which
\* is 0 or 1 and is taken from Vy as it was before Vx was written, also when
\* x = y; for x # 0xF it yields Vx = v div 2, resp. (2 * v) mod 256; no
\* register other than Vx and VF changes.  For x = 0xF the bit shifted out
\* is what the register holds.
C21_Shift ==
    JustShifted =>
        LET x == LastInstruction.register_x
            y == LastInstruction.register_y
            v == before.registers[y]
        IN  /\ Last.result = "Ok"
            /\ registers[15] = ShiftedOut(LastInstruction.op, v)
            /\ registers[15] \in {0, 1}
            /\ x # 15 => registers[x] = Shifted(LastInstruction.op, v)
            /\ \A i \in 0..14 : i # x => registers[i] = before.registers[i]

\* 8016 with V0 = 0 and V1 = 255: V0 = 127, VF = 1 over a VF of 200, V1 kept
C21_ShiftedRight255 ==
    /\ JustDecoded("RightShiftRegister")
    /\ LastInstruction.register_x = 0
    /\ LastInstruction.register_y = 1
    /\ before.registers[0] = 0
    /\ before.registers[1] = 255
    /\ before.registers[15] = 200
    /\ registers[0] = 127
    /\ registers[1] = 255
    /\ registers[15] = 1

\* 8F1E with V1 = 128: the shifted value is 0, VF holds the bit shifted out
C21_ShiftedLeftIntoVF ==
    /\ JustDecoded("LeftShiftRegister")
    /\ LastInstruction.register_x = 15
    /\ LastInstruction.register_y = 1
    /\ before.registers[1] = 128
    /\ registers[15] = 1

\* C22, as stated, for x # 0xF: for all y and all a = Vx, b = Vy, the
\* reverse subtraction 8xy7 completes and yields Vx = (b - a) mod 256 and
\* VF = 1 if b >= a, else VF = 0.
C22_ReverseSubAsStated ==
    (JustDecoded("SubRegistersOtherWayArround") /\ LastInstruction.register_x # 15) =>
        LET x == LastInstruction.register_x
            a == before.registers[x]
            b == before.registers[LastInstruction.register_y]
        IN  /\ Last.result = "Ok"
            /\ registers[x] = (b - a) % 256
            /\ registers[15] = IF b >= a THEN 1 ELSE 0

\* A reverse subtraction with Vy < Vx that ended in a panic, nothing written
C22_ReverseSubPanicked ==
    /\ JustDecoded("SubRegistersOtherWayArround")
    /\ LastInstruction.register_x = 0
    /\ LastInstruction.register_y = 1
    /\ before.registers[0] = 128
    /\ before.registers[1] = 1
    /\ Last.result = "Panic"
    /\ overflow_checks
    /\ registers = before.registers

\* C23: StoreRegisters with I = i0 and i0 + x <= 4095 writes memory[i0 + k]
\* = Vk for every k in 0..x, leaves every other memory byte and all
\* registers unchanged, and ends with I = i0 + x + 1.
C23_StoreRegisters ==
    (JustDecoded("StoreRegisters")
         /\ before.address_register + LastInstruction.register_x <= 4095) =>
        LET x == LastInstruction.register_x
            i0 == before.address_register
        IN  /\ Last.result = "Ok"
            /\ \A k \in 0..x : At(memory, i0 + k) = before.registers[k]
            /\ \A j \in (DOMAIN memory \cup DOMAIN before.memory) \ (i0..(i0 + x)) :
                   At(memory, j) = At(before.memory, j)
            /\ registers = before.registers
            /\ address_register = i0 + x + 1

\* FF55 with I = 4080: the sixteen registers, loaded from the font table,
\* fill the last sixteen bytes of memory, and I ends at 4096
C23_StoredSixteenAtEndOfMemory ==
    /\ JustDecoded("StoreRegisters")
    /\ Last.result = "Ok"
    /\ LastInstruction.register_x = 15
    /\ before.address_register = 4080
    /\ before.registers[0] = 240
    /\ before.registers[15] = 240
    /\ At(before.memory, 4080) = 0
    /\ At(memory, 4080) = 240
    /\ At(memory, 4081) = 144
    /\ At(memory, 4095) = 240
    /\ address_register = 4096

\* The instructions that write memory
MemoryWriters == {"StoreRegisters", "BinaryCodedDecimal"}

\* Step j of the log stored V0..Vx at the I and with the x of the last step,
\* and no step between the two wrote memory
StoredBefore(j) ==
    /\ j \in 1..(Len(step_log) - 1)
    /\ step_log[j].result = "Ok"
    /\ try_from(step_log[j].word).op = "StoreRegisters"
    /\ try_from(step_log[j].word).register_x = LastInstruction.register_x
    /\ step_log[j].address_register = before.address_register
    /\ \A m \in (j + 1)..(Len(step_log) - 1) :
           try_from(step_log[m].word).op \notin MemoryWriters

\* C24: LoadRegisters with I = i0 and i0 + x <= 4095 sets Vk = memory[i0 + k]
\* for every k in 0..x, leaves registers x + 1..0xF and all memory
\* unchanged, and ends with I = i0 + x + 1; Fx55, then I reset to i0 and
\* Fx65 with the same x, restores V0..Vx to what they were at the Fx55.
C24_LoadRegisters ==
    (JustDecoded("LoadRegisters")
         /\ before.address_register + LastInstruction.register_x <= 4095) =>
        LET x == LastInstruction.register_x
            i0 == before.address_register
        IN  /\ Last.result = "Ok"
            /\ \A k \in 0..x : registers[k] = At(before.memory, i0 + k)
            /\ \A k \in (x + 1)..15 : registers[k] = before.registers[k]
            /\ memory = before.memory
            /\ address_register = i0 + x + 1
            /\ \A j \in 1..Len(step_log) :
                   StoredBefore(j) =>
                       \A k \in 0..x : registers[k] = step_log[j].registers[k]

\* F755 at I = 768, the registers overwritten, F765 at I = 768: V0..V7 are
\* back, V8 keeps the value it was overwritten with
C24_RestoredEightRegisters ==
    /\ JustDecoded("LoadRegisters")
    /\ Last.result = "Ok"
    /\ Len(step_log) = 8
    /\ LastInstruction.register_x = 7
    /\ before.address_register = 768
    /\ StoredBefore(4)
    /\ step_log[4].registers[0] = 240
    /\ step_log[4].registers[8] = 32
    /\ before.registers[0] = 16
    /\ before.registers[8] = 16
    /\ registers[0] = 240
    /\ registers[8] = 16
    /\ address_register = 776

\* The five bytes of the glyph of hex digit d in the font table
Glyph(d) == [k \in 1..5 |-> FONT[5 * d + k]]

\* C25, as stated: a step that fetches a word Fx29 decodes it as
\* LoadFontCharacter and sets I = 5 * Vx; for Vx in 0..15 the five bytes
\* memory[I..I + 4] are the glyph of hex digit Vx and lie inside
\* 0x000..0x04F.
C25_LoadFontCharAsStated ==
    (/\ JustFetched
     /\ Nibble(Last.word, 3) = 15
     /\ Nibble(Last.word, 1) = 2
     /\ Nibble(Last.word, 0) = 9) =>
        LET x == Nibble(Last.word, 2)
            v == before.registers[x]
        IN  /\ LastInstruction = [op |-> "LoadFontCharacter", register_x |-> x]
            /\ Last.result = "Ok"
            /\ address_register = 5 * v
            /\ v \in 0..15 =>
                   /\ [k \in 1..5 |-> At(memory, address_register + k - 1)] = Glyph(v)
                   /\ address_register + 4 <= 79

\* The ROM 67 09 F7 29 stepped twice: the second step returned the
\* unknown-instruction error, and I is 0, not 45
C25_SteppedF729 ==
    /\ JustFetched
    /\ Len(step_log) = 2
    /\ Last.word = 63273
    /\ before.registers[7] = 9
    /\ Last.result = "Err"
    /\ address_register = 0
    /\ pc = 516

\* C26: JumpOffsetV0 (Bnnn) sets pc = nnn + V0 for every nnn and V0, with
\* register 0 whatever the second nibble of the word, and changes nothing
\* else: the stack, the registers, I, memory, vram, the timer, the keyboard
\* and the mode are as before.
C26_JumpOffsetV0 ==
    JustDecoded("JumpOffsetV0") =>
        /\ Last.result = "Ok"
        /\ LastInstruction.address = Last.word % 4096
        /\ pc = (Last.word % 4096) + before.registers[0]
        /\ ThisChip8 = [before EXCEPT !.pc = pc]

\* B2F0 with V0 = 255 and V2 = 7: pc = 0x2F0 + 255, not 0x2F0 + 7
C26_JumpedFrom2F0 ==
    /\ JustDecoded("JumpOffsetV0")
    /\ Last.word = 45808
    /\ before.registers[0] = 255
    /\ before.registers[2] = 7
    /\ before.pc = 518
    /\ pc = 1007
    /\ stack = <<>>

\* Key k is down in the keyboard mask kb
KeyIsDown(kb, k) == Bit(kb, k) = 1

\* The key the last skip on a key asked for
SkipKey == before.registers[LastInstruction.register_x]

\* C27: for a step at pc = p with Vx = k in 0..15, SkipIfKey ends with
\* pc = p + 4 if key k is down and p + 2 otherwise, SkipIfNotKey with
\* pc = p + 4 if key k is not down and p + 2 otherwise; neither changes the
\* keyboard or a register (or anything but pc); and of an Ex9E and an ExA1
\* run on the same keyboard with the same Vx exactly one skips (the Ex9E of
\* the program has skipped when the step after it fetched 6E01, the word
\* behind the jump 1208).
C27_SkipOnKey ==
    /\ (JustDecoded("SkipIfKey") /\ SkipKey \in 0..15) =>
           /\ Last.result = "Ok"
           /\ pc = before.pc + (IF KeyIsDown(before.keyboard, SkipKey) THEN 4 ELSE 2)
           /\ ThisChip8 = [before EXCEPT !.pc = pc]
    /\ (JustDecoded("SkipIfNotKey") /\ SkipKey \in 0..15) =>
           /\ Last.result = "Ok"
           /\ pc = before.pc + (IF KeyIsDown(before.keyboard, SkipKey) THEN 2 ELSE 4)
           /\ ThisChip8 = [before EXCEPT !.pc = pc]
           /\ (/\ Len(step_log) = 4
               /\ try_from(step_log[2].word)
                      = [op |-> "SkipIfKey", register_x |-> LastInstruction.register_x]
               /\ step_log[2].registers[LastInstruction.register_x] = SkipKey
               /\ step_log[3].word \in {4616, 28161}) =>
                  (step_log[3].word = 28161) # (pc = before.pc + 4)

\* Key 7 went down before the program 6707 E79E 1208 6E01 E7A1 started:
\* E79E skipped to 6E01, and E7A1 did not skip
C27_SkippedOnKey7 ==
    /\ JustDecoded("SkipIfNotKey")
    /\ Len(step_log) = 4
    /\ SkipKey = 7
    /\ keyboard = 128
    /\ step_log[2].word = 59294
    /\ step_log[3].word = 28161
    /\ before.pc = 520
    /\ pc = 522

\* The move is a step_cycle call
Stepped == Len(step_log') > Len(step_log)

\* The instruction decoded by the last step_cycle call of the log
InstructionOf(log) == try_from(log[Len(log)].word)

\* The last step_cycle call of the log returned from executing `name`
Executed(log, name) ==
    /\ Len(log) > 0
    /\ log[Len(log)].result = "Ok"
    /\ InstructionOf(log).op = name

\* C28: SetDelayTimer sets the delay timer to Vx and ReadDelayTimer sets Vx
\* to the delay timer, each changing nothing else but pc; an Fx07 that is
\* the next move after an Fx15 (no tick between) yields the value the Fx15
\* stored; and no step_cycle call other than one that executes Fx15 changes
\* the delay timer.
C28_DelayTimerStep ==
    Stepped =>
        /\ InstructionOf(step_log').op \in {"SetDelayTimer", "ReadDelayTimer"} =>
               Executed(step_log', InstructionOf(step_log').op)
        /\ Executed(step_log', "SetDelayTimer") =>
               /\ delay_timer' = registers[InstructionOf(step_log').register_x]
               /\ ThisChip8' = [ThisChip8 EXCEPT !.delay_timer = delay_timer', !.pc = pc + 2]
        /\ Executed(step_log', "ReadDelayTimer") =>
               /\ registers' =
                      [registers EXCEPT ![InstructionOf(step_log').register_x] = delay_timer]
               /\ ThisChip8' = [ThisChip8 EXCEPT !.registers = registers', !.pc = pc + 2]
        /\ (/\ last_event.op = "step_cycle"
            /\ Executed(step_log, "SetDelayTimer")
            /\ Executed(step_log', "ReadDelayTimer")) =>
               registers'[InstructionOf(step_log').register_x]
                   = before.registers[InstructionOf(step_log).register_x]
        /\ ~Executed(step_log', "SetDelayTimer") => delay_timer' = delay_timer

C28_DelayTimer == [][C28_DelayTimerStep]_vars

\* 6FFF FF15 F107 with no tick between the last two steps: V1 = 255
C28_ReadBack255 ==
    /\ JustDecoded("ReadDelayTimer")
    /\ Len(step_log) = 3
    /\ LastInstruction.register_x = 1
    /\ try_from(Previous.word) = [op |-> "SetDelayTimer", register_x |-> 15]
    /\ before.registers[15] = 255
    /\ before.registers[1] = 0
    /\ before.delay_timer = 255
    /\ registers[1] = 255
    /\ delay_timer = 255

\* C29: every step_cycle call that changes a cell of vram executes Clear or
\* DrawSprite and ends with redraw true; Clear and DrawSprite end with
\* redraw true also when no cell changes; and no move of the core (a step, a
\* ROM load) takes redraw from true to false: it stays set until the
\* renderer takes it.
C29_RedrawStep ==
    /\ (Stepped /\ vram' # vram) =>
           /\ Executed(step_log', "Clear") \/ Executed(step_log', "DrawSprite")
           /\ redraw'
    /\ (Stepped /\ (Executed(step_log', "Clear") \/ Executed(step_log', "DrawSprite"))) =>
           redraw'
    /\ (redraw /\ last_event'.op # "render") => redraw'

C29_Redraw == [][C29_RedrawStep]_vars

\* The glyph was drawn, the renderer took the flag, and 00E0 cleared the
\* screen: the flag is set again
C29_ClearedAfterRender ==
    /\ JustDecoded("Clear")
    /\ Last.result = "Ok"
    /\ before.vram # ZeroArray
    /\ ~before.redraw
    /\ vram = ZeroArray
    /\ redraw

\* Nothing has happened to the Chip8 since Chip8::new
JustCreated == last_event.op = "new"

\* C30: a newly created Chip8 has the 80 bytes of the font table at
\* 0x000..0x04F, glyph d at offset 5 * d, every other byte of memory 0, the
\* 16 registers 0, pc = 0x200, I = 0, every cell of vram 0, an empty stack,
\* no key down, the delay timer 0, redraw false and the mode Running.
C30_NewChip8 ==
    JustCreated =>
        /\ Len(FONT) = 80
        /\ \A d \in 0..15 : [k \in 1..5 |-> At(memory, 5 * d + k - 1)] = Glyph(d)
        /\ \A j \in 80..4095 : At(memory, j) = 0
        /\ DOMAIN memory \subseteq 0..4095
        /\ DOMAIN registers = 0..15
        /\ \A i \in 0..15 : registers[i] = 0
        /\ pc = 512
        /\ address_register = 0
        /\ \A index \in 0..2047 : At(vram, index) = 0
        /\ DOMAIN vram \subseteq 0..2047
        /\ stack = <<>>
        /\ \A k \in 0..15 : ~KeyIsDown(keyboard, k)
        /\ delay_timer = 0
        /\ redraw = FALSE
        /\ mode = Running

\* The new Chip8, before a ROM is loaded: the glyph of 0 starts at 0x000
\* and the glyph of F ends at 0x04F
C30_Created ==
    /\ JustCreated
    /\ ~rom_loaded
    /\ step_log = <<>>
    /\ [j \in 0..4 |-> At(memory, j)] = [j \in 0..4 |-> <<240, 144, 144, 144, 240>>[j + 1]]
    /\ [j \in 75..79 |-> At(memory, j)] = [j \in 75..79 |-> <<240, 128, 240, 128, 128>>[j - 74]]
    /\ At(memory, 80) = 0
    /\ pc = 512

\* C31: a step_cycle call, in whatever mode it is made (Running, Paused or
\* WaitForKey), changes the mode only when it executes WaitForKey (Fx0A),
\* and then to WaitForKey{x}; every other instruction, an unknown word and
\* a failed fetch leave the mode as it was, so no step makes the mode Paused
\* and no step takes it from WaitForKey or Paused back to Running.
C31_ModeStep ==
    Stepped =>
        /\ mode' # mode =>
               /\ Executed(step_log', "WaitForKey")
               /\ mode' = WaitForKeyMode(InstructionOf(step_log').register_x)
        /\ Executed(step_log', "WaitForKey") =>
               mode' = WaitForKeyMode(InstructionOf(step_log').register_x)
        /\ ~Executed(step_log', "WaitForKey") => mode' = mode
        /\ mode' = Paused => mode = Paused
        /\ mode' = Running => mode = Running
        /\ mode \in {Paused} \cup {WaitForKeyMode(r) : r \in 0..15} => mode' # Running

C31_Mode == [][C31_ModeStep]_vars

\* The ROM F2 0A stepped once: the mode went from Running to WaitForKey{2}
C31_SteppedF20A ==
    /\ JustDecoded("WaitForKey")
    /\ Len(step_log) = 1
    /\ Last.word = 61962
    /\ before.mode = Running
    /\ mode = WaitForKeyMode(2)

\* The ROM 62 05 stepped once while Paused: V2 is 5 and the mode is still
\* Paused.
C31_SteppedWhilePaused ==
    /\ JustDecoded("StoreNumberInRegister")
    /\ Len(step_log) = 1
    /\ Last.word = 25093
    /\ Last.result = "Ok"
    /\ before.mode = Paused
    /\ registers[2] = 5
    /\ mode = Paused

\* The ROM 62 05 stepped once in WaitForKey{15}: the mode is unchanged
C31_SteppedWhileWaiting ==
    /\ JustDecoded("StoreNumberInRegister")
    /\ Len(step_log) = 1
    /\ before.mode = WaitForKeyMode(15)
    /\ registers[2] = 5
    /\ mode = WaitForKeyMode(15)



\* The steps of the log, among those after step j and before step n, that
\* executed the named instruction.
ExecutedBetween(j, n, name) ==
    { k \in (j + 1)..(n - 1) :
        /\ step_log[k].result = "Ok"
        /\ try_from(step_log[k].word).op = name }

\* The call a Return executed as step n returns from: the last call before
\* it with as many calls as returns in between.
MatchingCalls(n) ==
    { j \in 1..(n - 1) :
        /\ j \in ExecutedBetween(0, n, "ExecuteSubroutine")
        /\ Cardinality(ExecutedBetween(j, n, "ExecuteSubroutine"))
               = Cardinality(ExecutedBetween(j, n, "Return")) }

\* C32: a call executed at pc = p pushes p + 2 on the stack and sets pc to
\* nnn; a return with a non-empty stack pops the address pushed last into pc;
\* and after a return, pc is the address following the call it matches (the
\* last call before it with every call in between returned from) and the
\* stack is as it was before that call.
C32_CallReturn ==
    /\ JustDecoded("ExecuteSubroutine") =>
           /\ Last.result = "Ok"
           /\ stack = Append(before.stack, before.pc + 2)
           /\ pc = Last.word % 4096
    /\ (JustDecoded("Return") /\ Len(before.stack) > 0) =>
           /\ Last.result = "Ok"
           /\ pc = before.stack[Len(before.stack)]
           /\ stack = SubSeq(before.stack, 1, Len(before.stack) - 1)
           /\ \A j \in MatchingCalls(Len(step_log)) :
                  (\A i \in MatchingCalls(Len(step_log)) : i <= j) =>
                      /\ pc = step_log[j].pc + 2
                      /\ stack = step_log[j].stack

\* Three nested calls from 0x200 have all been returned from: pc is 0x202
\* and the stack is empty again.
C32_ReturnedFromOutermost ==
    /\ JustDecoded("Return")
    /\ Len(step_log) = 6
    /\ step_log[1].word = Word(2, 2, 0, 6)
    /\ step_log[2].word = Word(2, 2, 0, 10)
    /\ step_log[3].word = Word(2, 2, 0, 14)
    /\ MatchingCalls(6) = {1}
    /\ before.stack = <<514>>
    /\ pc = 514
    /\ stack = <<>>

\* Step k of the log executed a jump or a call to an odd address: 1nnn or
\* 2nnn with odd nnn, or Bnnn with odd nnn + V0.
OddTransfer(k) ==
    /\ step_log[k].result = "Ok"
    /\ \E i \in {try_from(step_log[k].word)} :
           \/ /\ i.op \in {"JumpToAddress", "ExecuteSubroutine"}
              /\ i.address % 2 = 1
           \/ /\ i.op = "JumpOffsetV0"
              /\ (i.address + step_log[k].registers[0]) % 2 = 1

\* C33, as stated: the program counter is even in every state reachable from
\* a new Chip8 by ROM loads and steps.
C33_PcEvenAsStated == pc % 2 = 0

\* C33, amended: the program counter is even in every reachable state in
\* which no step has executed a jump or call to an odd address (1nnn or 2nnn
\* with odd nnn, Bnnn with odd nnn + V0).
C33_PcEven ==
    (\A k \in 1..Len(step_log) : ~OddTransfer(k)) => pc % 2 = 0

\* 6001 BFFD: the jump with offset went to 0xFFD + 1 = 0xFFE.
C33_JumpedToFFE ==
    /\ JustDecoded("JumpOffsetV0")
    /\ Last.word = 49149
    /\ Last.registers[0] = 1
    /\ \A k \in 1..Len(step_log) : ~OddTransfer(k)
    /\ before.pc = 514
    /\ pc = 4094

\* C34, as stated (its error half): a step that ends in an error outcome
\* leaves memory, registers, I, vram, stack, delay timer and mode exactly as
\* they were before the instruction was executed.
C34_NoPartialEffectAsStated ==
    (last_event.op = "step_cycle" /\ Last.result # "Ok") =>
        /\ memory = before.memory
        /\ registers = before.registers
        /\ address_register = before.address_register
        /\ vram = before.vram
        /\ stack = before.stack
        /\ delay_timer = before.delay_timer
        /\ mode = before.mode

\* AFFD 6002 F01E 6177 F155: with I = 4095, V0 = 2 and V1 = 0x77 the store
\* wrote V0 at 4095 and panicked on the index 4096 of V1.
C34_StoredOneByteThenPanicked ==
    /\ JustDecoded("StoreRegisters")
    /\ Last.word = 61781
    /\ Last.result = "Panic"
    /\ before.address_register = 4095
    /\ At(before.memory, 4095) = 0
    /\ At(memory, 4095) = 2
    /\ address_register = 4095

\* C35: a step that does not execute StoreRegisters or BinaryCodedDecimal
\* (any other instruction, an unknown word, a fetch that fails) leaves every
\* byte of memory unchanged; a step changes a byte of the font table at
\* 0x000..0x04F only if it executes one of the two with I inside the table.
C35_MemoryWrittenByStoresOnlyStep ==
    Stepped =>
        \E entry \in {step_log'[Len(step_log')]} :
            /\ (entry.word = None \/ try_from(entry.word).op \notin MemoryWriters) =>
                   memory' = memory
            /\ (\E a \in 0..79 : At(memory', a) # At(memory, a)) =>
                   /\ entry.word # None
                   /\ try_from(entry.word).op \in MemoryWriters
                   /\ address_register < 80

C35_MemoryWrittenByStoresOnly == [][C35_MemoryWrittenByStoresOnlyStep]_vars

\* FF65 from a new Chip8: V0..VF were loaded from the font table at I = 0
\* and memory is what it was.
C35_LoadedFontUnchanged ==
    /\ JustDecoded("LoadRegisters")
    /\ Last.word = 65381
    /\ Last.result = "Ok"
    /\ before.address_register = 0
    /\ registers[0] = 240
    /\ At(memory, 0) = 240
    /\ memory = before.memory

\* C36: in every reachable state every cell of vram holds 0 or 1.  (vram
\* keeps its non-zero cells only: a cell outside its domain holds 0.)
C36_VramCellsAreBits ==
    /\ DOMAIN vram \subseteq 0..2047
    /\ \A index \in DOMAIN vram : At(vram, index) \in {0, 1}

\* A sprite was drawn over lit cells: some cells went from 1 to 0, VF is 1,
\* and lit cells remain.
C36_DrewOverLitCells ==
    /\ DrewSprite
    /\ TurnedOff # {}
    /\ registers[15] = 1
    /\ \E index \in DOMAIN vram : vram[index] = 1

\* The word at address a of a memory, as the fetch composes it
WordAt(mem, a) == At(mem, a) * 256 + At(mem, a + 1)

\* C37: when step_cycle returns a decode error for the word at pc = p, pc is
\* p + 2 and memory, registers, I, vram, stack, delay timer, keyboard,
\* redraw flag and mode are as before the call; the step_cycle call that
\* follows starts at p + 2 and fetches the word there.
C37_DecodeError ==
    /\ (last_event.op = "step_cycle" /\ Last.result = "Err") =>
           /\ Last.word # None
           /\ Last.word = WordAt(before.memory, before.pc)
           /\ Is([before EXCEPT !.pc = before.pc + 2])
    /\ (Len(step_log) >= 2 /\ Previous.result = "Err") =>
           /\ Last.pc = Previous.pc + 2
           /\ before.pc = Previous.pc + 2
           /\ Last.pc + 1 <= 4095 =>
                  /\ Last.word # None
                  /\ Last.word = WordAt(before.memory, Previous.pc + 2)

\* The ROM 50 01 stepped twice: 5001 is no instruction, and the second call
\* fetched the word at 0x202.
C37_SteppedPast5001 ==
    /\ last_event.op = "step_cycle"
    /\ Len(step_log) = 2
    /\ Previous.word = 20481
    /\ Previous.result = "Err"
    /\ Previous.pc = 512
    /\ Last.pc = 514
    /\ Last.word = 0
    /\ At(memory, 512) = 80
    /\ registers = Previous.registers
    /\ pc = 516

\* C38, as stated: whenever SkipIfKey or SkipIfNotKey has been fetched, the
\* key index it passes to is_down (the value of Vx) is in 0..15 and the
\* instruction completes.
C38_KeyIndexAsStated ==
    (JustFetched /\ LastInstruction.op \in {"SkipIfKey", "SkipIfNotKey"}) =>
        /\ before.registers[LastInstruction.register_x] \in 0..15
        /\ Last.result = "Ok"

\* 6010 E09E in a build with overflow checks: the key index is 16 and the
\* step panicked in is_down.
C38_SkipOnKey16Panicked ==
    /\ JustDecoded("SkipIfKey")
    /\ Last.word = 57502
    /\ before.registers[0] = 16
    /\ overflow_checks
    /\ Last.result = "Panic"
    /\ ~Alive

\* C39, as stated: every step_cycle call starts its fetch with pc + 1 <= 4095
\* and reads both bytes of the word from inside memory.
C39_FetchInsideMemoryAsStated ==
    \A k \in 1..Len(step_log) :
        /\ step_log[k].pc + 1 <= 4095
        /\ step_log[k].word # None

\* The ROM 1F FF stepped twice: the jump left pc = 0xFFF, and the second
\* call panicked reading memory[4096].
C39_FetchAtFFFPanicked ==
    /\ last_event.op = "step_cycle"
    /\ Len(step_log) = 2
    /\ Previous.word = 8191
    /\ Last.pc = 4095
    /\ Last.word = None
    /\ Last.result = "Panic"
    /\ pc = 4095
    /\ ~Alive

\* The pc after the instruction (one that draws no random byte) is executed
\* in place of the one of the last step, on the Chip8 the last step fetched
\* from.
PcAfter(instruction) ==
    execute_instruction([before EXCEPT !.pc = before.pc + 2], instruction,
                        overflow_checks, 0).vm.pc

\* C40: for a step at pc = p, 3xkk ends with pc = p + 4 if Vx = kk and
\* p + 2 otherwise, 4xkk with p + 4 if Vx # kk, 5xy0 with p + 4 if Vx = Vy,
\* 9xy0 with p + 4 if Vx # Vy; on the same Chip8 exactly one of 3xkk and
\* 4xkk, and exactly one of 5xy0 and 9xy0, skips; none of the four changes a
\* register, I, memory or the stack.
C40_Skips ==
    (JustFetched /\ LastInstruction.op \in
         {"SkipIfRegisterEqTo", "SkipIfRegisterNeqTo",
          "SkipIfRegistersEq", "SkipIfRegistersNeq"}) =>
        \E a \in {Last.word \div 4096}, x \in {(Last.word \div 256) % 16},
           y \in {(Last.word \div 16) % 16}, kk \in {Last.word % 256},
           p \in {before.pc} :
            /\ Last.result = "Ok"
            /\ a = 3 => pc = IF before.registers[x] = kk THEN p + 4 ELSE p + 2
            /\ a = 4 => pc = IF before.registers[x] # kk THEN p + 4 ELSE p + 2
            /\ a = 5 => pc = IF before.registers[x] = before.registers[y]
                            THEN p + 4 ELSE p + 2
            /\ a = 9 => pc = IF before.registers[x] # before.registers[y]
                            THEN p + 4 ELSE p + 2
            /\ a \in {3, 4} =>
                   (PcAfter([op |-> "SkipIfRegisterEqTo", register |-> x, value |-> kk]) = p + 4)
                   # (PcAfter([op |-> "SkipIfRegisterNeqTo", register |-> x, value |-> kk]) = p + 4)
            /\ a \in {5, 9} =>
                   (PcAfter([op |-> "SkipIfRegistersEq", register_x |-> x, register_y |-> y]) = p + 4)
                   # (PcAfter([op |-> "SkipIfRegistersNeq", register_x |-> x, register_y |-> y]) = p + 4)
            /\ pc \in {p + 2, p + 4}
            /\ Is([before EXCEPT !.pc = pc])

\* 6FFF 6701 9F70: VF = 255 and V7 = 1 differ, and 9F70 at 0x204 skipped.
C40_SkippedOnVFNeqV7 ==
    /\ JustDecoded("SkipIfRegistersNeq")
    /\ Last.word = 40816
    /\ before.registers[15] = 255
    /\ before.registers[7] = 1
    /\ before.pc = 516
    /\ pc = 520
    /\ registers = before.registers
====
